---- MODULE Spec2Model ----
(***************************************************************************)
(* Model of the clinic booking assistant: the validators, the entity       *)
(* merger, the extraction orchestration, the conversation record and the   *)
(* uniform-slot availability computation.                                  *)
(*                                                                         *)
(* Text is a sequence of characters.  An ASCII character is the one-       *)
(* character string; a character outside ASCII is the token "Uxxxx" of its *)
(* code point.  A message produced by the program (an error text) is one   *)
(* opaque token, so a text that holds a message never equals a text typed  *)
(* by a user.                                                              *)
(*                                                                         *)
(* A Python value is the record [t, s, n]: t is its type ("none", "str",   *)
(* "int", "dict"), s its characters when it is a str, n its number when it *)
(* is an int and its number of keys when it is a dict standing where a     *)
(* scalar is expected.                                                     *)
(***************************************************************************)
EXTENDS Integers, Sequences, FiniteSets, TLC

(***************************************************************************)
(* Characters and text.                                                    *)
(***************************************************************************)
AsciiUpper ==
    << "A", "B", "C", "D", "E", "F", "G", "H", "I", "J", "K", "L", "M",
       "N", "O", "P", "Q", "R", "S", "T", "U", "V", "W", "X", "Y", "Z" >>

AsciiLower ==
    << "a", "b", "c", "d", "e", "f", "g", "h", "i", "j", "k", "l", "m",
       "n", "o", "p", "q", "r", "s", "t", "u", "v", "w", "x", "y", "z" >>

AsciiDigits == << "0", "1", "2", "3", "4", "5", "6", "7", "8", "9" >>

Range(f) == { f[i] : i \in DOMAIN f }

\* The characters of U+4E00..U+9FA5 that occur in the program text or in the
\* inputs drawn below.
HanChars ==
    { "U4E0A", "U4E0B", "U4E2D", "U4EA7", "U4ECA", "U4ED6", "U50CF", "U513F",
      "U5176", "U517B", "U5185", "U5206", "U5316", "U533B", "U5348", "U53E3",
      "U540E", "U5438", "U5468", "U547C", "U5589", "U590D", "U5916", "U591C",
      "U5929", "U5973", "U5987", "U5C3F", "U5EB7", "U5F71", "U5FC3", "U65E5",
      "U65E9", "U660E", "U665A", "U6668", "U666E", "U6708", "U68C0", "U6CCC",
      "U6D88", "U738B", "U7537", "U75BC", "U75DB", "U7624", "U76AE", "U773C",
      "U79D1", "U7BA1", "U7CBE", "U8033", "U80A4", "U80BF", "U8154", "U8425",
      "U8840", "U901A", "U9189", "U95F4", "U9A8C", "U9AA8", "U9EBB", "U9F3B" }

\* Decimal digits outside ASCII (U+0661 ARABIC-INDIC DIGIT ONE): the regex
\* class \d and int() take them, the class [0-9] does not.
UnicodeDigits == { "U0661" }

IsAsciiDigit(c) == c \in Range(AsciiDigits)

\* The regex class \d on a str pattern.
IsDigit(c) == IsAsciiDigit(c) \/ c \in UnicodeDigits

IsAsciiLetter(c) == c \in Range(AsciiUpper) \/ c \in Range(AsciiLower)

\* The regex class \s, which is also what str.strip() removes.
IsSpace(c) == c \in { " ", "\t", "\n" }

IsHan(c) == c \in HanChars

IndexOf(seq, c) == CHOOSE i \in DOMAIN seq : seq[i] = c

DigitValue(c) == IF IsAsciiDigit(c) THEN IndexOf(AsciiDigits, c) - 1 ELSE 1

ToLower(c) == IF c \in Range(AsciiUpper) THEN AsciiLower[IndexOf(AsciiUpper, c)] ELSE c

ToUpper(c) == IF c \in Range(AsciiLower) THEN AsciiUpper[IndexOf(AsciiLower, c)] ELSE c

\* str.lower() and str.upper()
lower(s) == [ i \in 1..Len(s) |-> ToLower(s[i]) ]

upper(s) == [ i \in 1..Len(s) |-> ToUpper(s[i]) ]

\* str.strip()
strip(s) ==
    LET keep == { i \in 1..Len(s) : ~IsSpace(s[i]) }
    IN  IF keep = {} THEN << >>
        ELSE LET lo == CHOOSE i \in keep : \A j \in keep : i <= j
                 hi == CHOOSE i \in keep : \A j \in keep : j <= i
             IN  SubSeq(s, lo, hi)

StartsWith(s, p) == Len(s) >= Len(p) /\ SubSeq(s, 1, Len(p)) = p

\* The Python test  p in s  on two str.
Contains(s, p) == \E i \in 0..(Len(s) - Len(p)) : SubSeq(s, i + 1, i + Len(p)) = p

\* Where a regex $ may stand: at the end, or before one final newline.
AtDollar(s, i) == i = Len(s) + 1 \/ (i = Len(s) /\ s[i] = "\n")

RECURSIVE DigitsToInt(_)
DigitsToInt(s) ==
    IF s = << >> THEN 0
    ELSE 10 * DigitsToInt(SubSeq(s, 1, Len(s) - 1)) + DigitValue(s[Len(s)])

RECURSIVE NatToDigits(_)
NatToDigits(n) ==
    IF n < 10 THEN << AsciiDigits[n + 1] >>
    ELSE NatToDigits(n \div 10) \o << AsciiDigits[(n % 10) + 1] >>

\* The format spec  :02d  on an int that is not negative.
Format02d(n) == IF n < 10 THEN << "0" >> \o NatToDigits(n) ELSE NatToDigits(n)

(***************************************************************************)
(* Python values.                                                          *)
(***************************************************************************)
PyNone == [ t |-> "none", s |-> << >>, n |-> 0 ]

PyStr(chars) == [ t |-> "str", s |-> chars, n |-> 0 ]

PyInt(k) == [ t |-> "int", s |-> << >>, n |-> k ]

PyDict(size) == [ t |-> "dict", s |-> << >>, n |-> size ]

\* Python truth of a value: None, "", 0 and {} are falsy.
Truthy(v) ==
    CASE v.t = "none" -> FALSE
      [] v.t = "str"  -> v.s # << >>
      [] v.t = "int"  -> v.n # 0
      [] v.t = "dict" -> v.n # 0

\* str(value); the text of a dict holds braces, quotes and a colon.
PyToStr(v) ==
    CASE v.t = "str"  -> v.s
      [] v.t = "int"  -> IF v.n < 0 THEN << "-" >> \o NatToDigits(-v.n) ELSE NatToDigits(v.n)
      [] v.t = "none" -> << "N", "o", "n", "e" >>
      [] v.t = "dict" -> IF v.n = 0 THEN << "{", "}" >> ELSE << "{", "'", ":", "}" >>

\* int(value): [raised, error, n].  raised is a TypeError that no handler
\* of the callers catches, error is a ValueError.
PyToInt(v) ==
    CASE v.t = "int" -> [ raised |-> FALSE, error |-> FALSE, n |-> v.n ]
      [] v.t = "str" ->
            LET body   == strip(v.s)
                signed == body # << >> /\ body[1] \in { "+", "-" }
                digits == IF signed THEN Tail(body) ELSE body
                good   == digits # << >> /\ \A i \in 1..Len(digits) : IsDigit(digits[i])
            IN  IF ~good THEN [ raised |-> FALSE, error |-> TRUE, n |-> 0 ]
                ELSE [ raised |-> FALSE, error |-> FALSE,
                       n |-> IF signed /\ body[1] = "-" THEN -DigitsToInt(digits)
                             ELSE DigitsToInt(digits) ]
      [] OTHER -> [ raised |-> TRUE, error |-> FALSE, n |-> 0 ]

(***************************************************************************)
(* utils/validators.py: the scalar validators.  A validator returns        *)
(* [ok, result]: result is the normalized text when ok, the message when   *)
(* not.  A validator that can raise on a value that is no str also returns *)
(* raised.                                                                 *)
(***************************************************************************)
is_valid_chinese_name(name) ==
    IF name = << >> \/ Len(name) < 2 \/ Len(name) > 10 THEN FALSE
    ELSE \/ \E e \in 2..(Len(name) + 1) :
               /\ AtDollar(name, e)
               /\ \A i \in 1..(e - 1) : IsHan(name[i])
         \/ \E e \in 2..(Len(name) + 1) :
               /\ AtDollar(name, e)
               /\ \A i \in 1..(e - 1) : IsAsciiLetter(name[i]) \/ IsSpace(name[i])

\* re.sub(r'^(\+852|852)', '', clean_phone): the pattern is anchored, so it
\* removes one prefix at most.
StripCountryCode(s) ==
    IF StartsWith(s, << "+", "8", "5", "2" >>) THEN SubSeq(s, 5, Len(s))
    ELSE IF StartsWith(s, << "8", "5", "2" >>) THEN SubSeq(s, 4, Len(s))
    ELSE s

\* After the \s characters are removed no newline is left, so the $ of
\* ^[2-9]\d{7}$ stands at the very end.
validate_phone_number(phone) ==
    IF phone = << >> THEN [ ok |-> FALSE, result |-> << "Phone number cannot be empty" >> ]
    ELSE LET spaced == SelectSeq(phone, LAMBDA c : ~(IsSpace(c) \/ c = "-"))
             clean_phone == StripCountryCode(spaced)
         IN  IF /\ Len(clean_phone) = 8
                /\ clean_phone[1] \in { "2", "3", "4", "5", "6", "7", "8", "9" }
                /\ \A i \in 2..8 : IsDigit(clean_phone[i])
             THEN [ ok |-> TRUE, result |-> clean_phone ]
             ELSE [ ok |-> FALSE, result |-> << "Please provide a valid Hong Kong phone number." >> ]

validate_policy_number(policy) ==
    IF policy = << >> THEN [ ok |-> FALSE, result |-> << "Policy number cannot be empty" >> ]
    ELSE IF \E e \in 7..21 :
               /\ AtDollar(policy, e)
               /\ \A i \in 1..(e - 1) : IsAsciiLetter(policy[i]) \/ IsAsciiDigit(policy[i])
         THEN [ ok |-> TRUE, result |-> upper(policy) ]
         ELSE [ ok |-> FALSE,
                result |-> << "Policy number format is incorrect, please check and re-enter" >> ]

get_clinic_appointment_types ==
    << << "U666E", "U901A", "U79D1" >>, << "U5185", "U79D1" >>,
       << "U5916", "U79D1" >>, << "U513F", "U79D1" >>,
       << "U5987", "U4EA7", "U79D1" >>, << "U773C", "U79D1" >>,
       << "U8033", "U9F3B", "U5589", "U79D1" >>, << "U53E3", "U8154", "U79D1" >>,
       << "U76AE", "U80A4", "U79D1" >>, << "U9AA8", "U79D1" >>,
       << "U6CCC", "U5C3F", "U79D1" >>, << "U5FC3", "U8840", "U7BA1", "U79D1" >>,
       << "U547C", "U5438", "U79D1" >>, << "U6D88", "U5316", "U79D1" >>,
       << "U5185", "U5206", "U6CCC", "U79D1" >>, << "U80BF", "U7624", "U79D1" >>,
       << "U7CBE", "U795E", "U79D1" >>, << "U5EB7", "U590D", "U79D1" >>,
       << "U4E2D", "U533B", "U79D1" >>, << "U75BC", "U75DB", "U79D1" >>,
       << "U9EBB", "U9189", "U79D1" >>, << "U8425", "U517B", "U79D1" >>,
       << "U68C0", "U9A8C", "U79D1" >>, << "U5F71", "U50CF", "U79D1" >> >>

\* apt_type is the value as it arrives; apt_type.lower() raises on a value
\* that is no str.
validate_appointment_type(apt_type, valid_types) ==
    IF ~Truthy(apt_type)
    THEN [ raised |-> FALSE, ok |-> FALSE, result |-> << "Appointment type cannot be empty" >> ]
    ELSE IF apt_type.t # "str"
    THEN [ raised |-> TRUE, ok |-> FALSE, result |-> << >> ]
    ELSE LET hits == { i \in DOMAIN valid_types :
                          \/ Contains(apt_type.s, valid_types[i])
                          \/ Contains(valid_types[i], apt_type.s) }
         IN  IF hits # {}
             THEN [ raised |-> FALSE, ok |-> TRUE,
                    result |-> valid_types[CHOOSE i \in hits : \A j \in hits : i <= j] ]
             ELSE [ raised |-> FALSE, ok |-> TRUE, result |-> apt_type.s ]

validate_age_range(age) ==
    IF age < 0 THEN [ ok |-> FALSE, result |-> << "Age cannot be less than 0 years" >> ]
    ELSE IF age > 150 THEN [ ok |-> FALSE, result |-> << "Age cannot be greater than 150 years" >> ]
    ELSE [ ok |-> TRUE, result |-> << >> ]

GenderMale == << "U7537" >>

GenderFemale == << "U5973" >>

GenderOther == << "U5176", "U4ED6" >>

\* gender is the value as it arrives; gender.lower() raises on a value that
\* is no str.
validate_gender(gender) ==
    IF ~Truthy(gender) THEN [ raised |-> FALSE, ok |-> TRUE, result |-> << >> ]
    ELSE IF gender.t # "str" THEN [ raised |-> TRUE, ok |-> FALSE, result |-> << >> ]
    ELSE IF gender.s \in { GenderMale, GenderFemale, GenderOther }
    THEN [ raised |-> FALSE, ok |-> TRUE, result |-> gender.s ]
    ELSE IF lower(gender.s) \in { << "m", "a", "l", "e" >>, << "m" >> }
    THEN [ raised |-> FALSE, ok |-> TRUE, result |-> GenderMale ]
    ELSE IF lower(gender.s) \in { << "f", "e", "m", "a", "l", "e" >>, << "f" >> }
    THEN [ raised |-> FALSE, ok |-> TRUE, result |-> GenderFemale ]
    ELSE [ raised |-> FALSE, ok |-> FALSE,
           result |-> << "Valid options are: U7537 U5973 U5176U4ED6" >> ]

(***************************************************************************)
(* utils/validators.py: dates and time slots.  A date is [y, m, d]; now is *)
(* the value of datetime.now() on the day of the call.                     *)
(***************************************************************************)
IsLeapYear(y) == (y % 4 = 0 /\ y % 100 # 0) \/ y % 400 = 0

DaysInMonth(y, m) ==
    IF m = 2 THEN (IF IsLeapYear(y) THEN 29 ELSE 28)
    ELSE IF m \in { 4, 6, 9, 11 } THEN 30 ELSE 31

NextDay(date) ==
    IF date.d < DaysInMonth(date.y, date.m) THEN [ date EXCEPT !.d = date.d + 1 ]
    ELSE IF date.m < 12 THEN [ y |-> date.y, m |-> date.m + 1, d |-> 1 ]
    ELSE [ y |-> date.y + 1, m |-> 1, d |-> 1 ]

\* date + timedelta(days=k)
RECURSIVE AddDays(_, _)
AddDays(date, k) == IF k = 0 THEN date ELSE AddDays(NextDay(date), k - 1)

\* strftime("%Y-%m-%d")
FormatDate(date) ==
    NatToDigits(date.y) \o << "-" >> \o Format02d(date.m) \o << "-" >> \o Format02d(date.d)

CharAt(s, i) == IF i \in 1..Len(s) THEN s[i] ELSE ""

\* (\d{1,2}) followed by the character sep, tried at position i: the number
\* of digits taken, 0 when there is no match.
DigitsBefore(s, i, sep) ==
    IF IsDigit(CharAt(s, i)) /\ IsDigit(CharAt(s, i + 1)) /\ CharAt(s, i + 2) = sep THEN 2
    ELSE IF IsDigit(CharAt(s, i)) /\ CharAt(s, i + 1) = sep THEN 1
    ELSE 0

\* (\d{1,2}) at the end of a pattern, tried at position i: greedy.
DigitsGreedy(s, i) ==
    IF IsDigit(CharAt(s, i)) /\ IsDigit(CharAt(s, i + 1)) THEN 2
    ELSE IF IsDigit(CharAt(s, i)) THEN 1
    ELSE 0

First(S) == CHOOSE i \in S : \A j \in S : i <= j

\* re.search(r'(\d{4})-(\d{1,2})-(\d{1,2})', s), then the f-string
IsoDateAt(s, i) ==
    /\ \A j \in i..(i + 3) : IsDigit(CharAt(s, j))
    /\ CharAt(s, i + 4) = "-"
    /\ DigitsBefore(s, i + 5, "-") > 0
    /\ DigitsGreedy(s, i + 5 + DigitsBefore(s, i + 5, "-") + 1) > 0

IsoDateText(s, i) ==
    LET ml == DigitsBefore(s, i + 5, "-")
        ds == i + 5 + ml + 1
        dl == DigitsGreedy(s, ds)
    IN  SubSeq(s, i, i + 3) \o << "-" >>
          \o Format02d(DigitsToInt(SubSeq(s, i + 5, i + 4 + ml))) \o << "-" >>
          \o Format02d(DigitsToInt(SubSeq(s, ds, ds + dl - 1)))

\* re.search of (\d{1,2})<sep>(\d{1,2})<last>, last = "" when the pattern
\* ends with the second group
MonthDayAt(s, i, sep, last) ==
    LET ml == DigitsBefore(s, i, sep)
    IN  /\ ml > 0
        /\ IF last = "" THEN DigitsGreedy(s, i + ml + 1) > 0
           ELSE DigitsBefore(s, i + ml + 1, last) > 0

MonthDayText(s, i, sep, last, now) ==
    LET ml == DigitsBefore(s, i, sep)
        ds == i + ml + 1
        dl == IF last = "" THEN DigitsGreedy(s, ds) ELSE DigitsBefore(s, ds, last)
    IN  NatToDigits(now.y) \o << "-" >>
          \o Format02d(DigitsToInt(SubSeq(s, i, i + ml - 1))) \o << "-" >>
          \o Format02d(DigitsToInt(SubSeq(s, ds, ds + dl - 1)))

normalize_date_expression(raw, now) ==
    IF raw = << >> THEN PyNone
    ELSE LET date_expr == strip(lower(raw))
             iso       == { i \in 1..Len(date_expr) : IsoDateAt(date_expr, i) }
             yue       == { i \in 1..Len(date_expr) : MonthDayAt(date_expr, i, "U6708", "U65E5") }
             slash     == { i \in 1..Len(date_expr) : MonthDayAt(date_expr, i, "/", "") }
         IN  IF \/ Contains(date_expr, << "U4ECA", "U5929" >>)
                \/ Contains(date_expr, << "U4ECA", "U65E5" >>)
             THEN PyStr(FormatDate(now))
             ELSE IF \/ Contains(date_expr, << "U660E", "U5929" >>)
                     \/ Contains(date_expr, << "U660E", "U65E5" >>)
             THEN PyStr(FormatDate(AddDays(now, 1)))
             ELSE IF Contains(date_expr, << "U540E", "U5929" >>)
             THEN PyStr(FormatDate(AddDays(now, 2)))
             ELSE IF Contains(date_expr, << "U4E0B", "U5468" >>)
             THEN PyStr(FormatDate(AddDays(now, 7)))
             ELSE IF iso # {} THEN PyStr(IsoDateText(date_expr, First(iso)))
             ELSE IF yue # {}
             THEN PyStr(MonthDayText(date_expr, First(yue), "U6708", "U65E5", now))
             ELSE IF slash # {} THEN PyStr(MonthDayText(date_expr, First(slash), "/", "", now))
             ELSE PyStr(date_expr)

SlotMorning == << "U4E0A", "U5348" >>

SlotAfternoon == << "U4E0B", "U5348" >>

SlotEvening == << "U665A", "U4E0A" >>

\* the dict time_mappings, in its order
time_mappings ==
    << << << "U65E9", "U4E0A" >>, SlotMorning >>,
       << << "U65E9", "U6668" >>, SlotMorning >>,
       << << "U4E0A", "U5348" >>, SlotMorning >>,
       << << "U4E2D", "U5348" >>, SlotAfternoon >>,
       << << "U4E0B", "U5348" >>, SlotAfternoon >>,
       << << "U665A", "U4E0A" >>, SlotEvening >>,
       << << "U591C", "U95F4" >>, SlotEvening >> >>

normalize_time_slot(raw) ==
    IF raw = << >> THEN PyNone
    ELSE LET time_slot == strip(lower(raw))
             hits      == { i \in DOMAIN time_mappings : Contains(time_slot, time_mappings[i][1]) }
             any(xs)   == \E x \in xs : Contains(time_slot, x)
         IN  IF hits # {} THEN PyStr(time_mappings[First(hits)][2])
             ELSE IF any({ << "9" >>, << "1", "0" >>, << "1", "1" >> }) THEN PyStr(SlotMorning)
             ELSE IF any({ << "1", "4" >>, << "1", "5" >>, << "1", "6" >>, << "1", "7" >> })
             THEN PyStr(SlotAfternoon)
             ELSE IF any({ << "1", "8" >>, << "1", "9" >>, << "2", "0" >> }) THEN PyStr(SlotEvening)
             ELSE PyStr(time_slot)

(***************************************************************************)
(* Dicts.  A dict is the sequence of its items in insertion order, each    *)
(* [k, v]; an item of the incoming field map also has d, the dict that     *)
(* stands at the key when v is a dict.                                     *)
(***************************************************************************)
DictHas(dict, key) == \E i \in DOMAIN dict : dict[i].k = key

\* dict.get(key)
DictGet(dict, key) ==
    IF DictHas(dict, key) THEN dict[CHOOSE i \in DOMAIN dict : dict[i].k = key].v ELSE PyNone

\* dict[key] = value on a key the dict holds
DictSet(dict, key, value) ==
    [ i \in DOMAIN dict |-> IF dict[i].k = key THEN [ dict[i] EXCEPT !.v = value ] ELSE dict[i] ]

(***************************************************************************)
(* utils/validators.py: the composite validators.  They return [raised,    *)
(* ok, errors, dict]: dict is the argument as the call leaves it.          *)
(***************************************************************************)
\* is_valid_chinese_name on the value as it arrives: len() raises on an int,
\* re.match raises on a dict that got past the length test.
NameCheck(name) ==
    CASE name.t = "str"  -> [ raised |-> FALSE, valid |-> is_valid_chinese_name(name.s) ]
      [] name.t = "dict" -> IF name.n < 2 \/ name.n > 10
                            THEN [ raised |-> FALSE, valid |-> FALSE ]
                            ELSE [ raised |-> TRUE, valid |-> FALSE ]
      [] OTHER           -> [ raised |-> TRUE, valid |-> FALSE ]

validate_patient_info(patient_info) ==
    LET name     == DictGet(patient_info, "name")
        age      == DictGet(patient_info, "age")
        gender   == DictGet(patient_info, "gender")
        nameChk  == IF Truthy(name) THEN NameCheck(name) ELSE [ raised |-> FALSE, valid |-> TRUE ]
        age_int  == PyToInt(age)
        ageChk   == IF age = PyNone THEN [ raised |-> FALSE, errs |-> << >> ]
                    ELSE IF age_int.raised THEN [ raised |-> TRUE, errs |-> << >> ]
                    ELSE IF age_int.error
                    THEN [ raised |-> FALSE, errs |-> << << "Age must be a number" >> >> ]
                    ELSE IF ~validate_age_range(age_int.n).ok
                    THEN [ raised |-> FALSE, errs |-> << validate_age_range(age_int.n).result >> ]
                    ELSE [ raised |-> FALSE, errs |-> << >> ]
        genChk   == validate_gender(gender)
        errors   == (IF nameChk.valid THEN << >> ELSE << << "Name format is incorrect" >> >>)
                      \o ageChk.errs
                      \o (IF Truthy(gender) /\ ~genChk.ok THEN << genChk.result >> ELSE << >>)
        raised   == nameChk.raised \/ ageChk.raised \/ (Truthy(gender) /\ genChk.raised)
    IN  IF raised THEN [ raised |-> TRUE, ok |-> FALSE, errors |-> << >>, dict |-> patient_info ]
        ELSE [ raised |-> FALSE,
               ok     |-> errors = << >>,
               errors |-> errors,
               dict   |-> IF Truthy(gender) /\ genChk.ok
                          THEN DictSet(patient_info, "gender", PyStr(genChk.result))
                          ELSE patient_info ]

validate_preferred_time(time_info, now) ==
    LET date_expr  == DictGet(time_info, "date")
        time_slot  == DictGet(time_info, "time_slot")
        raised     == \/ Truthy(date_expr) /\ date_expr.t # "str"
                      \/ Truthy(time_slot) /\ time_slot.t # "str"
        normalized_date == normalize_date_expression(date_expr.s, now)
        normalized_slot == normalize_time_slot(time_slot.s)
        errors     == IF Truthy(date_expr) /\ ~Truthy(normalized_date)
                      THEN << << "Date format cannot be recognized, please provide a specific date" >> >>
                      ELSE << >>
        withDate   == IF Truthy(date_expr) /\ Truthy(normalized_date)
                      THEN DictSet(time_info, "date", normalized_date) ELSE time_info
        withSlot   == IF Truthy(time_slot) /\ Truthy(normalized_slot)
                      THEN DictSet(withDate, "time_slot", normalized_slot) ELSE withDate
    IN  IF raised THEN [ raised |-> TRUE, ok |-> FALSE, errors |-> << >>, dict |-> time_info ]
        ELSE [ raised |-> FALSE, ok |-> errors = << >>, errors |-> errors, dict |-> withSlot ]

(***************************************************************************)
(* models/entities.py                                                      *)
(***************************************************************************)
\* PatientInfo(): none marks the place holding None instead of a record.
PatientInfo == [ none |-> FALSE, name |-> PyNone, age |-> PyNone, gender |-> PyNone ]

PreferredTime == [ none |-> FALSE, date |-> PyNone, time_slot |-> PyNone ]

BookingEntities ==
    [ booking_type   |-> PyNone,
      patient_info   |-> PatientInfo,
      policy_number  |-> PyNone,
      available_time |-> PreferredTime,
      phone_number   |-> PyNone ]

PatientFields == { "name", "age", "gender" }

TimeFields == { "date", "time_slot" }

ScalarFields == { "booking_type", "policy_number", "phone_number" }

\* The labels of the mandatory fields
LabelBookingType == << "U9810", "U7D04", "U985E", "U578B" >>

LabelPatientInfo == << "U75C5", "U4EBA", "U8CC7", "U8A0A" >>

LabelPolicyNumber == << "U4FDD", "U55AE", "U865F", "U78BC" >>

LabelAvailableTime == << "U53EF", "U9810", "U7D04", "U6642", "U9593" >>

LabelPhoneNumber == << "U96FB", "U8A71", "U865F", "U78BC" >>

\* missing.append(label) under its test
MissingIf(absent, label) == IF absent THEN << label >> ELSE << >>

\* A plausible slip: the test for the preferred time reads the time slot.
get_missing_fields_ReadsTimeSlot(e) ==
    MissingIf(~Truthy(e.booking_type), LabelBookingType)
        \o MissingIf(e.patient_info.none \/ ~Truthy(e.patient_info.name), LabelPatientInfo)
        \o MissingIf(~Truthy(e.policy_number), LabelPolicyNumber)
        \o MissingIf(e.available_time.none \/ ~Truthy(e.available_time.time_slot),
                     LabelAvailableTime)
        \o MissingIf(~Truthy(e.phone_number), LabelPhoneNumber)

\* BookingEntities.get_missing_fields
get_missing_fields(e) ==
    MissingIf(~Truthy(e.booking_type), LabelBookingType)
        \o MissingIf(e.patient_info.none \/ ~Truthy(e.patient_info.name), LabelPatientInfo)
        \o MissingIf(~Truthy(e.policy_number), LabelPolicyNumber)
        \o MissingIf(e.available_time.none \/ ~Truthy(e.available_time.date),
                     LabelAvailableTime)
        \o MissingIf(~Truthy(e.phone_number), LabelPhoneNumber)

\* BookingEntities.is_complete
is_complete(e) == Len(get_missing_fields(e)) = 0

\* A plausible slip: the loop without its test  if value .
RECURSIVE SetAttrs_WritesEmpty(_, _, _, _)
SetAttrs_WritesEmpty(obj, dict, i, fields) ==
    IF i > Len(dict) THEN [ raised |-> FALSE, obj |-> obj ]
    ELSE IF dict[i].k \notin fields THEN [ raised |-> TRUE, obj |-> obj ]
    ELSE SetAttrs_WritesEmpty([ obj EXCEPT ![dict[i].k] = dict[i].v ], dict, i + 1, fields)

\* The loop  for key, value in d.items(): if value: setattr(obj, key, value).
\* setattr on a pydantic model raises ValueError for a name that is no field;
\* it does not validate the value.
RECURSIVE SetAttrs(_, _, _, _)
SetAttrs(obj, dict, i, fields) ==
    IF i > Len(dict) THEN [ raised |-> FALSE, obj |-> obj ]
    ELSE IF ~Truthy(dict[i].v) THEN SetAttrs(obj, dict, i + 1, fields)
    ELSE IF dict[i].k \notin fields THEN [ raised |-> TRUE, obj |-> obj ]
    ELSE SetAttrs([ obj EXCEPT ![dict[i].k] = dict[i].v ], dict, i + 1, fields)

(***************************************************************************)
(* services/entity_extractor.py: SmartEntityMerger.merge_entities.         *)
(* The result is [raised, merged, all_errors].  When raised, the call      *)
(* returns nothing: merged is then the private copy as the exception left  *)
(* it.  An error is the text of its field prefix followed by the message.  *)
(***************************************************************************)
Prefixed(field, errors) == [ i \in DOMAIN errors |-> << field >> \o errors[i] ]

\* key == "booking_type"
MergeBookingType(acc, item) ==
    LET r == validate_appointment_type(item.v, get_clinic_appointment_types)
    IN  IF r.raised THEN [ acc EXCEPT !.raised = TRUE ]
        ELSE IF r.ok THEN [ acc EXCEPT !.merged.booking_type = PyStr(r.result) ]
        ELSE [ acc EXCEPT !.all_errors = @ \o << << "booking_type: " >> \o r.result >> ]

\* A plausible slip: the text that arrived is stored, not the validator's
\* normalized result.
MergePhoneNumber_StoresInput(acc, item) ==
    LET r == validate_phone_number(PyToStr(item.v))
    IN  IF r.ok THEN [ acc EXCEPT !.merged.phone_number = PyStr(PyToStr(item.v)) ]
        ELSE [ acc EXCEPT !.all_errors = @ \o << << "phone_number: " >> \o r.result >> ]

\* A plausible slip: a number equal to the one on record is reported as a
\* repetition.
MergePhoneNumber_ReportsRepeat(acc, item) ==
    LET r == validate_phone_number(PyToStr(item.v))
    IN  IF r.ok /\ acc.merged.phone_number = PyStr(r.result)
        THEN [ acc EXCEPT !.all_errors = @ \o << << "phone_number: ", "Already on record" >> >> ]
        ELSE IF r.ok THEN [ acc EXCEPT !.merged.phone_number = PyStr(r.result) ]
        ELSE [ acc EXCEPT !.all_errors = @ \o << << "phone_number: " >> \o r.result >> ]

\* key == "phone_number"
MergePhoneNumber(acc, item) ==
    LET r == validate_phone_number(PyToStr(item.v))
    IN  IF r.ok THEN [ acc EXCEPT !.merged.phone_number = PyStr(r.result) ]
        ELSE [ acc EXCEPT !.all_errors = @ \o << << "phone_number: " >> \o r.result >> ]

\* key == "policy_number"
MergePolicyNumber(acc, item) ==
    LET r == validate_policy_number(PyToStr(item.v))
    IN  IF r.ok THEN [ acc EXCEPT !.merged.policy_number = PyStr(r.result) ]
        ELSE [ acc EXCEPT !.all_errors = @ \o << << "policy_number: " >> \o r.result >> ]

\* key == "patient_info" and isinstance(value, dict)
\* target is merged.patient_info, r what validate_patient_info returned.
WritePatientInfo(acc, target, r) ==
    IF r.raised THEN [ acc EXCEPT !.raised = TRUE, !.merged.patient_info = target ]
    ELSE IF ~r.ok
    THEN [ acc EXCEPT !.merged.patient_info = target,
                      !.all_errors = @ \o Prefixed("patient_info: ", r.errors) ]
    ELSE LET set == SetAttrs(target, r.dict, 1, PatientFields)
         IN  [ acc EXCEPT !.merged.patient_info = set.obj, !.raised = set.raised ]

MergePatientInfo(acc, item) ==
    WritePatientInfo(acc,
                     IF acc.merged.patient_info.none THEN PatientInfo
                     ELSE acc.merged.patient_info,
                     validate_patient_info(item.d))

\* key == "available_time" and isinstance(value, dict)
\* target is merged.available_time, r what validate_preferred_time returned.
WriteAvailableTime(acc, target, r) ==
    IF r.raised THEN [ acc EXCEPT !.raised = TRUE, !.merged.available_time = target ]
    ELSE IF ~r.ok
    THEN [ acc EXCEPT !.merged.available_time = target,
                      !.all_errors = @ \o Prefixed("available_time: ", r.errors) ]
    ELSE LET set == SetAttrs(target, r.dict, 1, TimeFields)
         IN  [ acc EXCEPT !.merged.available_time = set.obj, !.raised = set.raised ]

MergeAvailableTime(acc, item, now) ==
    WriteAvailableTime(acc,
                       IF acc.merged.available_time.none THEN PreferredTime
                       ELSE acc.merged.available_time,
                       validate_preferred_time(item.d, now))

\* One turn of the loop over new_entities.items(); an exception ends the loop.
MergeItem(acc, item, now) ==
    IF acc.raised \/ ~Truthy(item.v) THEN acc
    ELSE IF item.k = "booking_type" THEN MergeBookingType(acc, item)
    ELSE IF item.k = "phone_number" THEN MergePhoneNumber(acc, item)
    ELSE IF item.k = "policy_number" THEN MergePolicyNumber(acc, item)
    ELSE IF item.k = "patient_info" /\ item.v.t = "dict" THEN MergePatientInfo(acc, item)
    ELSE IF item.k = "available_time" /\ item.v.t = "dict" THEN MergeAvailableTime(acc, item, now)
    ELSE acc

RECURSIVE MergeLoop(_, _, _, _)
MergeLoop(acc, new_entities, i, now) ==
    IF i > Len(new_entities) THEN acc
    ELSE MergeLoop(MergeItem(acc, new_entities[i], now), new_entities, i + 1, now)

\* merged = current_entities.copy(deep=True); all_errors = []; the loop
merge_entities(current_entities, new_entities, now) ==
    MergeLoop([ raised |-> FALSE, merged |-> current_entities, all_errors |-> << >> ],
              new_entities, 1, now)

(***************************************************************************)
(* models/conversation.py: ConversationManager.update_entities.            *)
(* The result is [raised, entities]: the method changes self.entities in   *)
(* place, so entities is what the conversation holds afterwards, also when *)
(* setattr raised on the way.  The field maps drawn below hold a dict or a *)
(* falsy value at the two composite keys.                                  *)
(***************************************************************************)
UpdateItem(acc, item) ==
    IF acc.raised THEN acc
    ELSE IF item.k = "patient_info" /\ item.v.t = "dict" THEN
        LET target == IF acc.entities.patient_info.none THEN PatientInfo
                      ELSE acc.entities.patient_info
            set    == SetAttrs(target, item.d, 1, PatientFields)
        IN  [ acc EXCEPT !.entities.patient_info = set.obj, !.raised = set.raised ]
    ELSE IF item.k = "available_time" /\ item.v.t = "dict" THEN
        LET target == IF acc.entities.available_time.none THEN PreferredTime
                      ELSE acc.entities.available_time
            set    == SetAttrs(target, item.d, 1, TimeFields)
        IN  [ acc EXCEPT !.entities.available_time = set.obj, !.raised = set.raised ]
    ELSE IF ~Truthy(item.v) THEN acc
    ELSE IF item.k \notin DOMAIN BookingEntities THEN [ acc EXCEPT !.raised = TRUE ]
    ELSE [ acc EXCEPT !.entities[item.k] = item.v ]

RECURSIVE UpdateLoop(_, _, _)
UpdateLoop(acc, new_entities, i) ==
    IF i > Len(new_entities) THEN acc
    ELSE UpdateLoop(UpdateItem(acc, new_entities[i]), new_entities, i + 1)

update_entities(entities, new_entities) ==
    UpdateLoop([ raised |-> FALSE, entities |-> entities ], new_entities, 1)

(***************************************************************************)
(* services/entity_extractor.py: EntityExtractor.extract_and_merge.        *)
(* extraction is what llm_service.extract_entities does: [raised, map];    *)
(* an empty or unparseable answer of the service is the empty map.  The    *)
(* result is [success, entities, validation_errors, recorded]: entities is *)
(* conversation.entities after the call, recorded whether the call         *)
(* appended to extraction_history.                                         *)
(***************************************************************************)
\* A plausible slip: the merge works on conversation.entities itself, so
\* what it wrote before an exception stays.
ExtractionOutcome_InPlace(entities, extraction, r) ==
    IF extraction.raised \/ extraction.map = << >>
    THEN [ success |-> FALSE, entities |-> entities,
           validation_errors |-> << >>, recorded |-> FALSE ]
    ELSE IF r.raised
    THEN [ success |-> FALSE, entities |-> r.merged,
           validation_errors |-> << >>, recorded |-> FALSE ]
    ELSE [ success |-> TRUE, entities |-> r.merged,
           validation_errors |-> r.all_errors, recorded |-> TRUE ]

extract_and_merge_InPlace(entities, extraction, now) ==
    ExtractionOutcome_InPlace(entities, extraction,
                              merge_entities(entities, extraction.map, now))

\* extracted is falsy or the call of the service raised: nothing is merged;
\* otherwise r is what merge_entities did.
ExtractionOutcome(entities, extraction, r) ==
    IF extraction.raised \/ extraction.map = << >> \/ r.raised
    THEN [ success |-> FALSE, entities |-> entities,
           validation_errors |-> << >>, recorded |-> FALSE ]
    ELSE [ success |-> TRUE, entities |-> r.merged,
           validation_errors |-> r.all_errors, recorded |-> TRUE ]

extract_and_merge(entities, extraction, now) ==
    ExtractionOutcome(entities, extraction, merge_entities(entities, extraction.map, now))

(***************************************************************************)
(* services/entity_extractor.py: what EntityExtractor reports.             *)
(* extraction_history is the list of the extraction_info dicts stored by   *)
(* extract_and_merge; an entry is [merged_successfully].                   *)
(***************************************************************************)
\* self.extraction_history after a call of extract_and_merge with result r
RecordExtraction(extraction_history, r) ==
    IF r.recorded
    THEN Append(extraction_history, [ merged_successfully |-> r.success ])
    ELSE extraction_history

\* get_missing_fields_question: [asked, missing_fields].  asked is FALSE
\* when "" is returned without a call of the service; missing_fields is the
\* list handed to generate_missing_fields_question.
get_missing_fields_question(e) ==
    IF Len(get_missing_fields(e)) = 0
    THEN [ asked |-> FALSE, missing_fields |-> << >> ]
    ELSE [ asked |-> TRUE, missing_fields |-> get_missing_fields(e) ]

\* get_extraction_quality_score: the float as the fraction [num, den]
get_extraction_quality_score(extraction_history) ==
    IF Len(extraction_history) = 0 THEN [ num |-> 0, den |-> 1 ]
    ELSE [ num |-> Cardinality({ i \in 1..Len(extraction_history) :
                                    extraction_history[i].merged_successfully }),
           den |-> Len(extraction_history) ]

(***************************************************************************)
(* models/conversation.py: ConversationState and ConversationManager.      *)
(* A message is [role, content, timestamp]; timestamp is the day of        *)
(* datetime.now().                                                         *)
(***************************************************************************)
GREETING == "greeting"

EXTRACTING_ENTITIES == "extracting_entities"

COLLECTING_MISSING == "collecting_missing"

SHOWING_AVAILABILITY == "showing_availability"

CONFIRMING_BOOKING == "confirming_booking"

COMPLETED == "completed"

ERROR == "error"

ConversationState ==
    { GREETING, EXTRACTING_ENTITIES, COLLECTING_MISSING, SHOWING_AVAILABILITY,
      CONFIRMING_BOOKING, COMPLETED, ERROR }

\* A plausible slip: every message counts as a turn.
add_message_CountsEveryRole(history, turns, role, content, at) ==
    [ message_history |-> Append(history, [ role |-> role, content |-> content,
                                            timestamp |-> at ]),
      turn_count |-> turns + 1 ]

\* add_message: [message_history, turn_count] after the call
add_message(history, turns, role, content, at) ==
    [ message_history |-> Append(history, [ role |-> role, content |-> content,
                                            timestamp |-> at ]),
      turn_count |-> IF role = "user" THEN turns + 1 ELSE turns ]

\* get_summary, the fields that are computed from entities
get_summary(e, st, turns, slots, selected) ==
    [ state |-> st,
      turn_count |-> turns,
      missing_fields |-> get_missing_fields(e),
      is_complete |-> is_complete(e),
      available_slots_count |-> Len(slots),
      selected_slot |-> selected ]

(***************************************************************************)
(* services/llm_service.py: LLMService.parse_slot_selection.  response is  *)
(* what GeminiService.generate_response returned: None after the retries,  *)
(* else the stripped text of the answer.                                   *)
(***************************************************************************)
\* A plausible slip: the number of the answer is returned unchecked.
SelectionOf_Unchecked(parsed, available_slots) ==
    IF parsed.error THEN 0 ELSE parsed.n

\* selection = int(response.strip()), then the range test; ValueError gives 0
SelectionOf(parsed, available_slots) ==
    IF parsed.error THEN 0
    ELSE IF 1 <= parsed.n /\ parsed.n <= Len(available_slots) THEN parsed.n
    ELSE 0

parse_slot_selection(response, available_slots) ==
    IF Len(available_slots) = 0 THEN 0
    ELSE IF ~Truthy(response) THEN 0
    ELSE SelectionOf(PyToInt(PyStr(strip(response.s))), available_slots)

(***************************************************************************)
(* services/calender_service.py: EnhancedCalendarService.  An event is     *)
(* [has_summary, summary, start, end]; start and end are the value of      *)
(* event[..].get('dateTime'): [t, date, hour, minute, offset] with t =     *)
(* "none" for an all-day event, "bad" for a text fromisoformat rejects and *)
(* "iso" for a time on the clock that is offset hours east of UTC          *)
(* (a final Z is offset 0).                                                *)
(***************************************************************************)
Marker == << "a", "v", "a", "i", "l", "a", "b", "l", "e" >>

Dash == << " ", "-", " " >>

\* The first position of p in s from position i on, 0 when there is none.
RECURSIVE Find(_, _, _)
Find(s, p, i) ==
    IF i + Len(p) - 1 > Len(s) THEN 0
    ELSE IF SubSeq(s, i, i + Len(p) - 1) = p THEN i
    ELSE Find(s, p, i + 1)

\* str.split(sep): the list of the parts
RECURSIVE split(_, _)
split(s, sep) ==
    IF Find(s, sep, 1) = 0 THEN << s >>
    ELSE << SubSeq(s, 1, Find(s, sep, 1) - 1) >>
             \o split(SubSeq(s, Find(s, sep, 1) + Len(sep), Len(s)), sep)

\* str.replace(old, new)
RECURSIVE replace(_, _, _)
replace(s, old, new) ==
    IF Find(s, old, 1) = 0 THEN s
    ELSE SubSeq(s, 1, Find(s, old, 1) - 1) \o new
             \o replace(SubSeq(s, Find(s, old, 1) + Len(old), Len(s)), old, new)

\* event.get('summary', '')
SummaryOf(event) == IF event.has_summary THEN event.summary ELSE << >>

NoDoctor == [ none |-> TRUE, doctor_id |-> << >>, doctor_name |-> << >>, specialty |-> << >> ]

\* doctor_part.replace('Available', '').replace('AVAILABLE', '').strip()
DoctorName(doctor_part) ==
    strip(replace(replace(doctor_part, << "A", "v", "a", "i", "l", "a", "b", "l", "e" >>, << >>),
                  << "A", "V", "A", "I", "L", "A", "B", "L", "E" >>, << >>))

\* doctor_name.lower().replace(' ', '_').replace('.', '')
DoctorId(doctor_name) ==
    replace(replace(lower(doctor_name), << " " >>, << "_" >>), << "." >>, << >>)

\* The dict built from the parts of summary.split(' - ')
DoctorInfo(parts) ==
    IF Len(parts) >= 2
    THEN [ none |-> FALSE,
           doctor_id |-> DoctorId(DoctorName(strip(parts[1]))),
           doctor_name |-> DoctorName(strip(parts[1])),
           specialty |-> strip(parts[2]) ]
    ELSE NoDoctor

\* A plausible slip: a title is parsed whether it has the marker or not.
parse_doctor_info_from_event_NoMarkerTest(event) ==
    DoctorInfo(split(SummaryOf(event), Dash))

\* parse_doctor_info_from_event: [none, doctor_id, doctor_name, specialty]
parse_doctor_info_from_event(event) ==
    IF ~Contains(lower(SummaryOf(event)), Marker) THEN NoDoctor
    ELSE DoctorInfo(split(SummaryOf(event), Dash))

HK_OFFSET == 8

\* fromisoformat(...).astimezone(self.tz): the same instant on the Hong
\* Kong clock, as [date, hour, minute]
ToLocal(dt) ==
    LET h == dt.hour + HK_OFFSET - dt.offset
    IN  IF h >= 24 THEN [ date |-> NextDay(dt.date), hour |-> h - 24, minute |-> dt.minute ]
        ELSE [ date |-> dt.date, hour |-> h, minute |-> dt.minute ]

\* strftime("%H:%M")
FormatTime(local) == Format02d(local.hour) \o << ":" >> \o Format02d(local.minute)

\* DoctorSlot(...) of an event whose two times were parsed
SlotOf(doctor_info, start_local, end_local) ==
    [ doctor_id |-> doctor_info.doctor_id,
      doctor_name |-> doctor_info.doctor_name,
      specialty |-> doctor_info.specialty,
      date |-> FormatDate(start_local.date),
      start_time |-> FormatTime(start_local),
      end_time |-> FormatTime(end_local),
      available |-> TRUE ]

\* One pass of the loop of convert_events_to_slots: the slots of the event.
ConvertEvent(event, doctor_info) ==
    IF doctor_info.none THEN << >>
    ELSE IF event.start.t = "none" \/ event.end.t = "none" THEN << >>
    ELSE IF event.start.t = "bad" \/ event.end.t = "bad" THEN << >>
    ELSE << SlotOf(doctor_info, ToLocal(event.start), ToLocal(event.end)) >>

RECURSIVE convert_events_to_slots(_)
convert_events_to_slots(events) ==
    IF events = << >> THEN << >>
    ELSE ConvertEvent(Head(events), parse_doctor_info_from_event(Head(events)))
             \o convert_events_to_slots(Tail(events))

TextTomorrow == << "U660E", "U5929" >>

TextToday == << "U4ECA", "U5929" >>

TextMorning == << "U4E0A", "U5348" >>

TextAfternoon == << "U4E0B", "U5348" >>

TextEvening == << "U665A", "U4E0A" >>

\* _matches_target_date; today is datetime.now(self.tz).
matches_target_date(slot_date, target_date, today) ==
    IF ~Truthy(target_date) THEN TRUE
    ELSE IF Contains(target_date.s, TextTomorrow) THEN slot_date = FormatDate(AddDays(today, 1))
    ELSE IF Contains(target_date.s, TextToday) THEN slot_date = FormatDate(today)
    ELSE Contains(slot_date, target_date.s)

\* _matches_time_preference
matches_time_preference(slot, time_preference) ==
    IF ~Truthy(time_preference) THEN TRUE
    ELSE LET hour == PyToInt(PyStr(split(slot.start_time, << ":" >>)[1])).n
         IN  IF time_preference.s = TextMorning THEN 9 <= hour /\ hour < 12
             ELSE IF time_preference.s = TextAfternoon THEN 12 <= hour /\ hour < 18
             ELSE IF time_preference.s = TextEvening THEN 18 <= hour /\ hour < 21
             ELSE TRUE

\* The filter loop of get_available_slots.
RECURSIVE FilterSlots(_, _, _, _)
FilterSlots(all_slots, target_date, time_preference, today) ==
    IF all_slots = << >> THEN << >>
    ELSE LET slot == Head(all_slots)
             rest == FilterSlots(Tail(all_slots), target_date, time_preference, today)
         IN  IF Truthy(target_date) /\ ~matches_target_date(slot.date, target_date, today)
             THEN rest
             ELSE IF Truthy(time_preference) /\ ~matches_time_preference(slot, time_preference)
             THEN rest
             ELSE << slot >> \o rest

\* get_available_slots, all_slots being what convert_events_to_slots made
\* of the events the calendar returned.
get_available_slots(all_slots, target_date, time_preference, today) ==
    FilterSlots(all_slots, target_date, time_preference, today)

(***************************************************************************)
(* calender-integration/calendar_avalibility.py: suggest_meeting_times.    *)
(* A time is a number of half seconds since 00:00 of day 0 on the Hong     *)
(* Kong clock, the zone every datetime is converted to; the zone has one   *)
(* fixed offset.  An odd number is a time with microsecond = 500000.       *)
(***************************************************************************)
SUGGESTION_DURATION_MINUTES == 60

BUSINESS_HOURS_START == 9

BUSINESS_HOURS_END == 18

Seconds(n) == 2 * n

Minutes(n) == Seconds(60 * n)

Hours(n) == Minutes(60 * n)

\* datetime.hour, .minute, .second, .microsecond
HourOf(t) == (t \div Hours(1)) % 24

MinuteOf(t) == (t \div Minutes(1)) % 60

SecondOf(t) == (t \div Seconds(1)) % 60

MicrosecondOf(t) == (t % Seconds(1)) * 500000

\* A plausible slip: the microsecond is not looked at.
RoundToHour_IgnoresMicrosecond(time_min) ==
    IF MinuteOf(time_min) > 0 \/ SecondOf(time_min) > 0
    THEN ((time_min + Hours(1)) \div Hours(1)) * Hours(1)
    ELSE time_min

\* Round to the next full hour
RoundToHour(time_min) ==
    IF MinuteOf(time_min) > 0 \/ SecondOf(time_min) > 0 \/ MicrosecondOf(time_min) > 0
    THEN ((time_min + Hours(1)) \div Hours(1)) * Hours(1)
    ELSE time_min

\* A plausible slip: the business day takes its closing hour in.
InBusinessHours_ClosingHourIn(hour) == BUSINESS_HOURS_START <= hour /\ hour <= BUSINESS_HOURS_END

InBusinessHours(hour) == BUSINESS_HOURS_START <= hour /\ hour < BUSINESS_HOURS_END

\* A plausible slip: the comparisons are not strict, so an interval that
\* only touches the slot counts.
Overlaps_Touching(busy_start, busy_end, current, slot_duration) ==
    busy_start <= current + slot_duration /\ busy_end >= current

Overlaps(busy_start, busy_end, current, slot_duration) ==
    busy_start < current + slot_duration /\ busy_end > current

\* A plausible slip: the loop over the busy periods ends after the first one.
RECURSIVE SuggestLoop_FirstBusyOnly(_, _, _, _)
SuggestLoop_FirstBusyOnly(busy_periods, current, time_max, suggestions) ==
    LET slot_duration == Minutes(SUGGESTION_DURATION_MINUTES)
        overlap == /\ Len(busy_periods) > 0
                   /\ Overlaps(busy_periods[1][1], busy_periods[1][2], current, slot_duration)
    IN  IF ~(current + slot_duration <= time_max) THEN suggestions
        ELSE SuggestLoop_FirstBusyOnly(busy_periods, current + slot_duration, time_max,
                         IF InBusinessHours(HourOf(current)) /\ ~overlap
                         THEN Append(suggestions, current) ELSE suggestions)

\* A plausible slip: the loop runs while the start, not the end, of the
\* slot is inside the window.
RECURSIVE SuggestLoop_StartInWindow(_, _, _, _)
SuggestLoop_StartInWindow(busy_periods, current, time_max, suggestions) ==
    LET slot_duration == Minutes(SUGGESTION_DURATION_MINUTES)
        overlap == \E i \in DOMAIN busy_periods :
                      Overlaps(busy_periods[i][1], busy_periods[i][2], current, slot_duration)
    IN  IF ~(current <= time_max) THEN suggestions
        ELSE SuggestLoop_StartInWindow(busy_periods, current + slot_duration, time_max,
                         IF InBusinessHours(HourOf(current)) /\ ~overlap
                         THEN Append(suggestions, current) ELSE suggestions)

RECURSIVE SuggestLoop(_, _, _, _)
SuggestLoop(busy_periods, current, time_max, suggestions) ==
    LET slot_duration == Minutes(SUGGESTION_DURATION_MINUTES)
        overlap == \E i \in DOMAIN busy_periods :
                      Overlaps(busy_periods[i][1], busy_periods[i][2], current, slot_duration)
    IN  IF ~(current + slot_duration <= time_max) THEN suggestions
        ELSE SuggestLoop(busy_periods, current + slot_duration, time_max,
                         IF InBusinessHours(HourOf(current)) /\ ~overlap
                         THEN Append(suggestions, current) ELSE suggestions)

suggest_meeting_times(busy_periods, time_min, time_max) ==
    SuggestLoop(busy_periods, RoundToHour(time_min), time_max, << >>)

(***************************************************************************)
(* State.                                                                  *)
(*   pc, now       the step of a run and the calendar date                 *)
(*   current_entities, new_entities, first, second                         *)
(*                 the arguments of merge_entities and the results of two  *)
(*                 calls of it, the second on the result of the first      *)
(*   entities, calls, last                                                 *)
(*                 conversation.entities, the number of calls made on the  *)
(*                 conversation and what the last call was and returned    *)
(*   phone, phone_result                                                   *)
(*                 the argument and the result of validate_phone_number    *)
(*   busy_periods, time_min, time_max, suggestions                         *)
(*                 the arguments and the result of suggest_meeting_times   *)
(*   extraction_history  EntityExtractor.extraction_history                *)
(*   attempts      whether each call of extract_and_merge succeeded        *)
(*   view          what the last read-only call returned                   *)
(*   state, message_history, turn_count, available_slots, selected_slot    *)
(*                 the fields of the ConversationManager                   *)
(*   selection     the last call of parse_slot_selection and its result    *)
(*   events, slots the argument and the result of convert_events_to_slots  *)
(*   doctor_info   the last call of parse_doctor_info_from_event           *)
(*   args_after    the arguments of merge_entities as the call left them   *)
(*   reordered     a call of suggest_meeting_times on the busy periods in  *)
(*                 another order                                           *)
(*   slot_query    the last call of get_available_slots                    *)
(*   conversations, objects, clock, acted                                  *)
(*                 two ConversationManager objects, the PatientInfo and    *)
(*                 PreferredTime objects they refer to, the clock in       *)
(*                 seconds, and the conversation the last call was made on *)
(***************************************************************************)
VARIABLES pc, now, current_entities, new_entities, first, second,
          entities, calls, last, phone, phone_result,
          busy_periods, time_min, time_max, suggestions,
          extraction_history, attempts, view,
          state, message_history, turn_count, available_slots, selected_slot,
          selection, events, slots, doctor_info,
          args_after, reordered, slot_query,
          conversations, objects, clock, acted

mergeVars == << current_entities, new_entities, first, second >>

convVars == << entities, calls, last >>

phoneVars == << phone, phone_result >>

slotVars == << busy_periods, time_min, time_max, suggestions >>

histVars == << extraction_history, attempts, view >>

dialogueVars ==
    << state, message_history, turn_count, available_slots, selected_slot, selection >>

calendarVars == << events, slots, doctor_info >>

lateVars == << args_after, reordered, slot_query >>

pairVars == << conversations, objects, clock, acted >>

vars ==
    << pc, now, mergeVars, convVars, phoneVars, slotVars, histVars, dialogueVars,
       calendarVars, lateVars, pairVars >>

(***************************************************************************)
(* The values drawn as inputs.                                             *)
(***************************************************************************)
\* The largest number of keys of an incoming field map.
MaxKeys == 2

\* The largest number of midnights that pass during a run.
MaxDays == 1

Item(key, value) == [ k |-> key, v |-> value, d |-> << >> ]

DictItem(key, dict) == [ k |-> key, v |-> PyDict(Len(dict)), d |-> dict ]

KV(key, value) == [ k |-> key, v |-> value ]

TextWangMing == << "U738B", "U660E" >>

TextAmy == << "A", "m", "y" >>

TextPhonePlain == << "2", "3", "4", "5", "6", "7", "8", "9" >>

TextPhoneDressed ==
    << "+", "8", "5", "2", " ", "9", "1", "2", "3", "-", "4", "5", "6", "7" >>

TextPhoneBad == << "1", "2", "3", "4", "5", "6", "7", "8" >>

TextPolicy == << "a", "b", "1", "2", "c", "d" >>

TextPolicyBad == << "a", "b", "-", "1", "2" >>

ScalarItems ==
    { Item("booking_type", PyStr(<< "U79D1" >>)),
      Item("booking_type", PyStr(<< >>)),
      Item("booking_type", PyInt(7)),
      Item("phone_number", PyStr(TextPhoneDressed)),
      Item("phone_number", PyStr(TextPhoneBad)),
      Item("phone_number", PyNone),
      Item("phone_number", PyInt(61234567)),
      Item("policy_number", PyStr(TextPolicy)),
      Item("policy_number", PyStr(TextPolicyBad)),
      Item("patient_info", PyStr(TextAmy)),
      Item("doctor", PyStr(TextWangMing)) }

PatientItems ==
    { DictItem("patient_info", << KV("name", PyStr(TextWangMing)), KV("gender", PyStr(<< "M", "a", "l", "e" >>)) >>),
      DictItem("patient_info", << KV("name", PyStr(<< "A" >>)), KV("age", PyInt(30)) >>),
      DictItem("patient_info", << KV("age", PyInt(0)), KV("name", PyStr(<< >>)) >>),
      DictItem("patient_info", << KV("age", PyInt(151)), KV("gender", PyStr(<< "f" >>)) >>),
      DictItem("patient_info", << KV("age", PyStr(<< "2", "5" >>)), KV("gender", PyNone) >>),
      DictItem("patient_info", << KV("age", PyStr(<< "x" >>)), KV("name", PyStr(TextAmy)) >>),
      DictItem("patient_info", << KV("name", PyStr(TextAmy)), KV("nickname", PyStr(<< "A" >>)) >>),
      DictItem("patient_info", << KV("age", PyDict(1)) >>) }

\* A patient_info that tells the age only: the ends of the accepted range
\* and an age below it.
AgeItems ==
    { DictItem("patient_info", << KV("age", PyInt(0)) >>),
      DictItem("patient_info", << KV("age", PyInt(150)) >>),
      DictItem("patient_info", << KV("age", PyInt(-1)) >>) }

TimeItems ==
    { DictItem("available_time", << KV("date", PyStr(<< "2", "0", "2", "4", "-", "1", "-", "5" >>)),
                                    KV("time_slot", PyStr(<< "U65E9", "U4E0A" >>)) >>),
      DictItem("available_time", << KV("date", PyStr(<< " " >>)),
                                    KV("time_slot", PyStr(<< "U4E0B", "U5348" >>)) >>),
      DictItem("available_time", << KV("date", PyStr(TextTomorrow)), KV("time_slot", PyStr(<< >>)) >>),
      DictItem("available_time", << KV("time_slot", PyStr(<< "3", "P", "M" >>)), KV("date", PyNone) >>),
      DictItem("available_time", << KV("date", PyInt(5)) >>) }

MergeItems == ScalarItems \cup PatientItems \cup TimeItems

\* The field maps of at most n keys: a dict holds a key once.
FieldMaps(n) ==
    UNION { { m \in [ 1..len -> MergeItems \cup AgeItems ] :
                \A i, j \in 1..len : i # j => m[i].k # m[j].k } : len \in 0..n }

\* Entities a conversation can hold when a merge starts.
StoredFull ==
    [ booking_type   |-> PyStr(<< "U5916", "U79D1" >>),
      patient_info   |-> [ none |-> FALSE, name |-> PyStr(<< "L", "i", " ", "N", "a" >>),
                           age |-> PyInt(40), gender |-> PyStr(GenderOther) ],
      policy_number  |-> PyStr(<< "Z", "Z", "9", "9", "9", "9" >>),
      available_time |-> [ none |-> FALSE,
                           date |-> PyStr(<< "2", "0", "2", "5", "-", "0", "3", "-", "0", "1" >>),
                           time_slot |-> PyStr(SlotEvening) ],
      phone_number   |-> PyStr(TextPhonePlain) ]

StoredEntities ==
    { BookingEntities,
      StoredFull,
      [ BookingEntities EXCEPT !.patient_info.none = TRUE, !.available_time.none = TRUE ],
      [ BookingEntities EXCEPT !.phone_number = PyStr(TextPhonePlain),
                               !.patient_info.name = PyStr(TextAmy) ] }

\* The days a run can start on: the last day of a month and of a year.
StartDays == { [ y |-> 2024, m |-> 2, d |-> 29 ], [ y |-> 2024, m |-> 12, d |-> 31 ] }

NoResult == [ raised |-> FALSE, merged |-> BookingEntities, all_errors |-> << >>, at |-> 0 ]

\* The largest number of calls made on one conversation.
MaxCalls == 2

\* The field maps of one turn of a conversation: the empty one and those of
\* one key.  Maps of more keys are merged under SpecMerge.
TurnMaps == { << >> } \cup { << item >> : item \in MergeItems }

\* The field map of a turn that tells all five mandatory fields.
CompleteMap ==
    << Item("booking_type", PyStr(<< "U79D1" >>)),
       DictItem("patient_info", << KV("name", PyStr(TextWangMing)),
                                   KV("gender", PyStr(<< "M", "a", "l", "e" >>)) >>),
       Item("policy_number", PyStr(TextPolicy)),
       DictItem("available_time", << KV("date", PyStr(TextTomorrow)),
                                     KV("time_slot", PyStr(<< >>)) >>),
       Item("phone_number", PyStr(TextPhoneDressed)) >>

NoCall ==
    [ op |-> "none", cause |-> "none", success |-> TRUE, recorded |-> FALSE,
      before |-> BookingEntities, partial |-> BookingEntities ]

\* What llm_service.extract_entities can do: raise, or return a field map,
\* the empty one when the service gave no answer or one that does not parse.
Extractions ==
    { [ raised |-> TRUE, map |-> << >> ] }
        \cup { [ raised |-> FALSE, map |-> m ] : m \in TurnMaps \cup { CompleteMap } }

\* The field maps given to update_entities.
UpdateMaps ==
    { m \in TurnMaps :
        \A i \in DOMAIN m :
            m[i].k \in { "patient_info", "available_time" }
                => m[i].v.t = "dict" \/ ~Truthy(m[i].v) }

NoPhone == [ number |-> << >>, prefix |-> << >>, text |-> << >> ]

NoPhoneResult == [ ok |-> FALSE, result |-> << >> ]

\* The variables a specification does not use keep these values.
MergeParked ==
    /\ current_entities = BookingEntities
    /\ new_entities = << >>
    /\ first = NoResult
    /\ second = NoResult

NoView == [ op |-> "none", result |-> << >> ]

\* selected_slot = None
NoSlot == [ none |-> TRUE ]

NoSelection == [ called |-> FALSE, response |-> PyNone, count |-> 0, result |-> 0 ]

NoParse == [ called |-> FALSE, summary |-> << >>, info |-> NoDoctor ]

\* EntityExtractor.__init__
HistParked == extraction_history = << >> /\ attempts = << >> /\ view = NoView

\* ConversationManager.__init__
DialogueParked ==
    /\ state = GREETING
    /\ message_history = << >>
    /\ turn_count = 0
    /\ available_slots = << >>
    /\ selected_slot = NoSlot
    /\ selection = NoSelection

ConvParked ==
    /\ entities = BookingEntities /\ calls = 0 /\ last = NoCall
    /\ HistParked /\ DialogueParked

CalendarParked == events = << >> /\ slots = << >> /\ doctor_info = NoParse

NoArgs == [ called |-> FALSE, current_entities |-> BookingEntities, new_entities |-> << >> ]

NoReorder == [ called |-> FALSE, busy_periods |-> << >>, suggestions |-> << >> ]

NoQuery ==
    [ called |-> FALSE, target_date |-> PyNone, time_preference |-> PyNone,
      all_slots |-> << >>, result |-> << >> ]

LateParked == args_after = NoArgs /\ reordered = NoReorder /\ slot_query = NoQuery

PairParked == conversations = << >> /\ objects = << >> /\ clock = 0 /\ acted = 0

PhoneParked == phone = NoPhone /\ phone_result = NoPhoneResult

SlotParked == busy_periods = << >> /\ time_min = 0 /\ time_max = 0 /\ suggestions = << >>

(***************************************************************************)
(* SpecMerge: merge_entities as a function of its arguments and of the     *)
(* date: one call on drawn arguments, then one call with the same field    *)
(* map on the entities the first call returned.                            *)
(***************************************************************************)
MergeInit ==
    /\ pc = "start"
    /\ now \in [ date : StartDays, days : { 0 } ]
    /\ current_entities \in StoredEntities
    /\ new_entities \in FieldMaps(MaxKeys)
    /\ first = NoResult
    /\ second = NoResult
    /\ ConvParked /\ PhoneParked /\ SlotParked /\ CalendarParked
    /\ LateParked /\ PairParked

\* What a call returned, and the day it was made on.
Returned(r, at) ==
    [ raised |-> r.raised, merged |-> r.merged, all_errors |-> r.all_errors, at |-> at ]

Call(current) == Returned(merge_entities(current, new_entities, now.date), now.days)

NestedFields == { "patient_info", "available_time" }

SharedByCopy_Shallow(current) == { f \in NestedFields : ~current[f].none }

\* merged = current_entities.copy(deep=True): the nested objects of merged
\* that are also objects of current_entities.  A deep copy shares none.
SharedByCopy(current) == { }

\* current_entities as the call leaves it: a nested object that merged
\* shares shows what the loop wrote to it.
CurrentAfter(current, r) ==
    [ f \in DOMAIN current |->
        IF f \in SharedByCopy(current) THEN r.merged[f] ELSE current[f] ]

ValueAfter_InPlace(item, today) ==
    IF item.k = "patient_info" THEN validate_patient_info(item.d).dict
    ELSE validate_preferred_time(item.d, today).dict

\* patient_copy = value.copy() / time_copy = value.copy(): the validator
\* writes its normalised sub-fields to the copy, value keeps its own.
ValueAfter(item, today) == item.d

\* new_entities as the call leaves it.
NewAfter(new, today) ==
    [ i \in DOMAIN new |->
        IF Truthy(new[i].v) /\ new[i].k \in NestedFields /\ new[i].v.t = "dict"
        THEN [ new[i] EXCEPT !.d = ValueAfter(new[i], today) ]
        ELSE new[i] ]

Merge ==
    /\ pc = "start"
    /\ first' = Call(current_entities)
    /\ args_after' = [ called |-> TRUE,
                       current_entities |-> CurrentAfter(current_entities, first'),
                       new_entities |-> NewAfter(new_entities, now.date) ]
    /\ pc' = "merged"
    /\ UNCHANGED << now, current_entities, new_entities, second, convVars, phoneVars, slotVars,
                 histVars, dialogueVars, calendarVars, reordered, slot_query,
                    pairVars >>

\* Midnight passes between the two calls.
Midnight ==
    /\ pc = "merged"
    /\ now.days < MaxDays
    /\ now' = [ date |-> NextDay(now.date), days |-> now.days + 1 ]
    /\ UNCHANGED << pc, mergeVars, convVars, phoneVars, slotVars,
                 histVars, dialogueVars, calendarVars, lateVars,
                    pairVars >>

MergeAgain ==
    /\ pc = "merged"
    /\ ~first.raised
    /\ second' = Call(first.merged)
    /\ pc' = "merged_again"
    /\ UNCHANGED << now, current_entities, new_entities, first, convVars, phoneVars, slotVars,
                 histVars, dialogueVars, calendarVars, lateVars,
                    pairVars >>

MergeNext == Merge \/ Midnight \/ MergeAgain

SpecMerge == MergeInit /\ [][MergeNext]_vars

(***************************************************************************)
(* Spec: one conversation.  ConversationManager.__init__ makes the         *)
(* entities empty; then extract_and_merge and update_entities are called   *)
(* in any order while the days pass.                                       *)
(***************************************************************************)
Init ==
    /\ pc = "conversation"
    /\ now \in [ date : StartDays, days : { 0 } ]
    /\ entities = BookingEntities
    /\ calls = 0
    /\ last = NoCall
    /\ HistParked /\ DialogueParked
    /\ MergeParked /\ PhoneParked /\ SlotParked /\ CalendarParked
    /\ LateParked /\ PairParked

\* r is what extract_and_merge returned and left in the conversation, m
\* what its merge did on the copy.
Extracted(extraction, r, m) ==
    /\ entities' = r.entities
    /\ extraction_history' = RecordExtraction(extraction_history, r)
    /\ attempts' = Append(attempts, r.success)
    /\ view' = NoView
    /\ last' = [ op       |-> "extract_and_merge",
                 cause    |-> IF extraction.raised THEN "extraction raised"
                              ELSE IF extraction.map = << >> THEN "empty"
                              ELSE IF m.raised THEN "merge raised"
                              ELSE "none",
                 success  |-> r.success,
                 recorded |-> r.recorded,
                 before   |-> entities,
                 partial  |-> IF extraction.raised THEN entities ELSE m.merged ]

ExtractAndMerge ==
    /\ pc = "conversation"
    /\ calls < MaxCalls
    /\ \E extraction \in Extractions :
         Extracted(extraction,
                   extract_and_merge(entities, extraction, now.date),
                   merge_entities(entities, extraction.map, now.date))
    /\ calls' = calls + 1
    /\ UNCHANGED << pc, now, mergeVars, phoneVars, slotVars, dialogueVars, calendarVars, lateVars,
                    pairVars >>

Updated(r) ==
    /\ entities' = r.entities
    /\ view' = NoView
    /\ UNCHANGED << extraction_history, attempts >>
    /\ last' = [ op       |-> "update_entities",
                 cause    |-> IF r.raised THEN "setattr raised" ELSE "none",
                 success  |-> ~r.raised,
                 recorded |-> FALSE,
                 before   |-> entities,
                 partial  |-> r.entities ]

UpdateEntities ==
    /\ pc = "conversation"
    /\ calls < MaxCalls
    /\ \E fields \in UpdateMaps : Updated(update_entities(entities, fields))
    /\ calls' = calls + 1
    /\ UNCHANGED << pc, now, mergeVars, phoneVars, slotVars, dialogueVars, calendarVars, lateVars,
                    pairVars >>

NewDay ==
    /\ pc = "conversation"
    /\ now.days < MaxDays
    /\ now' = [ date |-> NextDay(now.date), days |-> now.days + 1 ]
    /\ UNCHANGED << pc, mergeVars, convVars, phoneVars, slotVars,
                 histVars, dialogueVars, calendarVars, lateVars,
                    pairVars >>

\* The read-only calls: what they return is kept in view until the next
\* call that writes.
GetSummary ==
    /\ pc = "conversation"
    /\ view' = [ op |-> "get_summary",
                 result |-> get_summary(entities, state, turn_count, available_slots,
                                        selected_slot) ]
    /\ UNCHANGED << pc, now, mergeVars, convVars, phoneVars, slotVars,
                    extraction_history, attempts, dialogueVars, calendarVars, lateVars,
                    pairVars >>

GetMissingFieldsQuestion ==
    /\ pc = "conversation"
    /\ view' = [ op |-> "get_missing_fields_question",
                 result |-> get_missing_fields_question(entities) ]
    /\ UNCHANGED << pc, now, mergeVars, convVars, phoneVars, slotVars,
                    extraction_history, attempts, dialogueVars, calendarVars, lateVars,
                    pairVars >>

GetExtractionQualityScore ==
    /\ pc = "conversation"
    /\ view' = [ op |-> "get_extraction_quality_score",
                 result |-> get_extraction_quality_score(extraction_history) ]
    /\ UNCHANGED << pc, now, mergeVars, convVars, phoneVars, slotVars,
                    extraction_history, attempts, dialogueVars, calendarVars, lateVars,
                    pairVars >>

Next ==
    \/ ExtractAndMerge \/ UpdateEntities \/ NewDay
    \/ GetSummary \/ GetMissingFieldsQuestion \/ GetExtractionQualityScore

Spec == Init /\ [][Next]_vars

(***************************************************************************)
(* SpecPhone: validate_phone_number on a number as somebody writes it: a   *)
(* run of characters behind a prefix, with spaces and dashes put in.       *)
(***************************************************************************)
\* The largest number of spaces and dashes put into one number.
MaxSeparators == 1

PhoneHeads ==
    { << "2", "3", "4" >>, << "8", "5", "2" >>, << "1", "2", "3" >>, << "9", "0", "0" >> }

PhoneTails ==
    { << "5", "6", "7", "8", "9" >>,
      << "5", "6", "7", "8" >>,
      << "5", "6", "7", "8", "9", "0" >>,
      << "5", "U0661", "7", "8", "9" >>,
      << "5", "6", "a", "8", "9" >> }

PhonePrefixes ==
    { << >>, << "8", "5", "2" >>, << "+", "8", "5", "2" >>, << "+" >>, << "8", "5", "3" >> }

IsSeparator(c) == c \in { " ", "-" }

PhoneInit ==
    /\ pc = "writing"
    /\ now = [ date |-> [ y |-> 2024, m |-> 2, d |-> 29 ], days |-> 0 ]
    /\ \E head \in PhoneHeads, tail \in PhoneTails, prefix \in PhonePrefixes :
         phone = [ number |-> head \o tail, prefix |-> prefix, text |-> prefix \o head \o tail ]
    /\ phone_result = NoPhoneResult
    /\ MergeParked /\ ConvParked /\ SlotParked /\ CalendarParked
    /\ LateParked /\ PairParked

InsertSeparator ==
    /\ pc = "writing"
    /\ Len(SelectSeq(phone.text, IsSeparator)) < MaxSeparators
    /\ \E at \in 0..Len(phone.text), c \in { " ", "-" } :
         phone' = [ phone EXCEPT !.text = SubSeq(phone.text, 1, at) \o << c >>
                                            \o SubSeq(phone.text, at + 1, Len(phone.text)) ]
    /\ UNCHANGED << pc, now, phone_result, mergeVars, convVars, slotVars,
                 histVars, dialogueVars, calendarVars, lateVars,
                    pairVars >>

ValidatePhone ==
    /\ pc = "writing"
    /\ phone_result' = validate_phone_number(phone.text)
    /\ pc' = "validated"
    /\ UNCHANGED << now, phone, mergeVars, convVars, slotVars,
                 histVars, dialogueVars, calendarVars, lateVars,
                    pairVars >>

PhoneNext == InsertSeparator \/ ValidatePhone

SpecPhone == PhoneInit /\ [][PhoneNext]_vars

(***************************************************************************)
(* SpecSlots: suggest_meeting_times on a window and on the busy periods    *)
(* parse_busy_times collected for it.                                      *)
(***************************************************************************)
\* The largest number of busy periods.
MaxBusy == 2

\* Window starts: on the hour, and a minute, a second and half a second off.
WindowStarts ==
    { Hours(7) + Minutes(30), Hours(8), Hours(8) + 1, Hours(9),
      Hours(16) + Seconds(1), Hours(17) + Minutes(59) }

\* Window lengths in hours; the callers ask for 24 hours ahead.
WindowHours == { 1, 2, 9, 12, 24 }

BusyPoints ==
    { Hours(9), Hours(10), Hours(10) + Minutes(30), Hours(11), Hours(17), Hours(18) + Minutes(30) }

BusyIntervals == { iv \in BusyPoints \X BusyPoints : iv[1] < iv[2] }

SlotsInit ==
    /\ pc = "collecting"
    /\ now = [ date |-> [ y |-> 2024, m |-> 2, d |-> 29 ], days |-> 0 ]
    /\ busy_periods = << >>
    /\ time_min \in WindowStarts
    /\ \E h \in WindowHours : time_max = time_min + Hours(h)
    /\ suggestions = << >>
    /\ MergeParked /\ ConvParked /\ PhoneParked /\ CalendarParked
    /\ LateParked /\ PairParked

AddBusy ==
    /\ pc = "collecting"
    /\ Len(busy_periods) < MaxBusy
    /\ \E b \in BusyIntervals : busy_periods' = Append(busy_periods, b)
    /\ UNCHANGED << pc, now, time_min, time_max, suggestions, mergeVars, convVars, phoneVars,
                 histVars, dialogueVars, calendarVars, lateVars,
                    pairVars >>

\* The busy periods in every order parse_busy_times can list them.
Reorderings(periods) ==
    { [ i \in DOMAIN periods |-> periods[f[i]] ] :
        f \in { g \in [ DOMAIN periods -> DOMAIN periods ] :
                  \A i, j \in DOMAIN periods : i # j => g[i] # g[j] } }

\* A second call for the same window.
SuggestReordered ==
    /\ pc = "suggested"
    /\ \E periods \in Reorderings(busy_periods) :
         reordered' = [ called |-> TRUE, busy_periods |-> periods,
                        suggestions |-> suggest_meeting_times(periods, time_min, time_max) ]
    /\ pc' = "suggested_again"
    /\ UNCHANGED << now, busy_periods, time_min, time_max, suggestions, mergeVars, convVars,
                    phoneVars, histVars, dialogueVars, calendarVars, args_after, slot_query,
                    pairVars >>

Suggest ==
    /\ pc = "collecting"
    /\ suggestions' = suggest_meeting_times(busy_periods, time_min, time_max)
    /\ pc' = "suggested"
    /\ UNCHANGED << now, busy_periods, time_min, time_max, mergeVars, convVars, phoneVars,
                 histVars, dialogueVars, calendarVars, lateVars,
                    pairVars >>

SlotsNext == AddBusy \/ Suggest \/ SuggestReordered

SpecSlots == SlotsInit /\ [][SlotsNext]_vars

(***************************************************************************)
(* SpecDialogue: one conversation and the calls of a turn: add_message,    *)
(* extract_and_merge and set_available_slots, in any order.                *)
(* SpecSelection: one conversation and the calls that choose a slot:       *)
(* set_available_slots, parse_slot_selection and select_slot.              *)
(***************************************************************************)
\* The largest number of messages of one conversation.
MaxMessages == 2

Roles == { "user", "assistant", "system" }

Contents == { << "h", "i" >>, << "2" >> }

DialogueExtractions ==
    { [ raised |-> TRUE, map |-> << >> ],
      [ raised |-> FALSE, map |-> << >> ],
      [ raised |-> FALSE, map |-> << Item("phone_number", PyStr(TextPhoneBad)) >> ],
      [ raised |-> FALSE, map |-> CompleteMap ] }

TimeAt(hour, offset) ==
    [ t |-> "iso", date |-> [ y |-> 2024, m |-> 12, d |-> 31 ], hour |-> hour,
      minute |-> 30, offset |-> offset ]

\* An all-day event has no dateTime.
NoDateTime ==
    [ t |-> "none", date |-> [ y |-> 2024, m |-> 12, d |-> 31 ], hour |-> 0,
      minute |-> 0, offset |-> 0 ]

BadDateTime == [ NoDateTime EXCEPT !.t = "bad" ]

NameWang == << "D", "r", ".", " ", "W", "a", "n", "g" >>

NameLee == << "D", "r", ".", " ", "L", "e", "e" >>

NameLi == << "D", "r", ".", " ", "L", "i" >>

SpecialtyInternal == << "I", "n", "t", "e", "r", "n", "a", "l", " ", "M", "e", "d", "i", "c", "i", "n", "e" >>

SpecialtyObGyn == << "O", "b", "s", "t", "e", "t", "r", "i", "c", "s", " ", "-", " ", "G", "y", "n", "a", "e", "c", "o", "l", "o", "g", "y" >>

SpecialtySurgery == << "S", "u", "r", "g", "e", "r", "y" >>

\* A title of the expected format "Dr. [Name] Available - [Specialty]"
AvailabilityTitle(name, specialty) ==
    name \o << " ", "A", "v", "a", "i", "l", "a", "b", "l", "e", " ", "-", " " >> \o specialty

TitleBusy == << "D", "r", ".", " ", "W", "a", "n", "g", " ", "B", "U", "S", "Y", " ", "-", " ", "M", "e", "e", "t", "i", "n", "g" >>

TitleOnlyMarker == << "D", "r", ".", " ", "C", "h", "a", "n", " ", "a", "v", "a", "i", "l", "a", "b", "l", "e" >>

EventWang ==
    [ has_summary |-> TRUE, summary |-> AvailabilityTitle(NameWang, SpecialtyInternal),
      start |-> TimeAt(9, 8), end |-> TimeAt(10, 8) ]

EventLi ==
    [ has_summary |-> TRUE, summary |-> AvailabilityTitle(NameLi, SpecialtySurgery),
      start |-> TimeAt(14, 8), end |-> TimeAt(15, 8) ]

\* The lists a caller hands to set_available_slots.
SlotLists ==
    { convert_events_to_slots(evs) : evs \in { << >>, << EventWang >>, << EventWang, EventLi >> } }

\* What generate_response returns for the selection prompt: None, or the
\* stripped text of the answer.
Responses ==
    { PyNone, PyStr(<< >>), PyStr(<< "0" >>), PyStr(<< "1" >>), PyStr(<< "2" >>),
      PyStr(<< "3" >>), PyStr(<< "-", "1" >>), PyStr(<< "+", "2" >>), PyStr(<< "U0661" >>),
      PyStr(<< "1", "2" >>), PyStr(<< "2", ".", "0" >>), PyStr(<< "t", "w", "o" >>),
      PyStr(<< "{", "\"", "s", "l", "o", "t", "_", "s", "e", "l", "e", "c", "t", "e", "d", "\"",
               ":", " ", "2", ",", "}" >>) }

DialogueInit ==
    /\ pc = "dialogue"
    /\ now = [ date |-> [ y |-> 2024, m |-> 2, d |-> 29 ], days |-> 0 ]
    /\ entities = BookingEntities
    /\ calls = 0
    /\ last = NoCall
    /\ HistParked /\ DialogueParked
    /\ MergeParked /\ PhoneParked /\ SlotParked /\ CalendarParked
    /\ LateParked /\ PairParked

AddedMessage(r) ==
    /\ message_history' = r.message_history
    /\ turn_count' = r.turn_count

AddMessage ==
    /\ pc = "dialogue"
    /\ Len(message_history) < MaxMessages
    /\ \E role \in Roles, content \in Contents :
         AddedMessage(add_message(message_history, turn_count, role, content, now.days))
    /\ UNCHANGED << pc, now, mergeVars, convVars, phoneVars, slotVars, histVars,
                    state, available_slots, selected_slot, selection, calendarVars, lateVars,
                    pairVars >>

ExtractTurn ==
    /\ pc = "dialogue"
    /\ calls < MaxCalls
    /\ \E extraction \in DialogueExtractions :
         Extracted(extraction,
                   extract_and_merge(entities, extraction, now.date),
                   merge_entities(entities, extraction.map, now.date))
    /\ calls' = calls + 1
    /\ UNCHANGED << pc, now, mergeVars, phoneVars, slotVars, dialogueVars, calendarVars, lateVars,
                    pairVars >>

SetAvailableSlots ==
    /\ pc \in { "dialogue", "selection" }
    /\ \E list \in SlotLists : available_slots' = list
    /\ UNCHANGED << pc, now, mergeVars, convVars, phoneVars, slotVars, histVars,
                    state, message_history, turn_count, selected_slot, selection,
                    calendarVars, lateVars,
                    pairVars >>

ParseSlotSelection ==
    /\ pc = "selection"
    /\ \E response \in Responses :
         selection' = [ called |-> TRUE, response |-> response,
                        count |-> Len(available_slots),
                        result |-> parse_slot_selection(response, available_slots) ]
    /\ UNCHANGED << pc, now, mergeVars, convVars, phoneVars, slotVars, histVars,
                    state, message_history, turn_count, available_slots, selected_slot,
                    calendarVars, lateVars,
                    pairVars >>

SelectSlot ==
    /\ pc = "selection"
    /\ \E list \in SlotLists : \E i \in DOMAIN list : selected_slot' = list[i]
    /\ UNCHANGED << pc, now, mergeVars, convVars, phoneVars, slotVars, histVars,
                    state, message_history, turn_count, available_slots, selection,
                    calendarVars, lateVars,
                    pairVars >>

DialogueNext == AddMessage \/ ExtractTurn \/ SetAvailableSlots

SpecDialogue == DialogueInit /\ [][DialogueNext]_vars

SelectionInit ==
    /\ pc = "selection"
    /\ now = [ date |-> [ y |-> 2024, m |-> 2, d |-> 29 ], days |-> 0 ]
    /\ MergeParked /\ ConvParked /\ PhoneParked /\ SlotParked /\ CalendarParked
    /\ LateParked /\ PairParked

SelectionNext == SetAvailableSlots \/ ParseSlotSelection \/ SelectSlot

SpecSelection == SelectionInit /\ [][SelectionNext]_vars

(***************************************************************************)
(* SpecCalendar: a list of calendar events is collected, titles are parsed *)
(* and the list is converted to slots.                                     *)
(***************************************************************************)
\* The largest number of events of one list.
MaxEvents == 2

Summaries ==
    { [ has |-> TRUE, text |-> AvailabilityTitle(NameWang, SpecialtyInternal) ],
      [ has |-> TRUE, text |-> AvailabilityTitle(NameLee, SpecialtyObGyn) ],
      [ has |-> TRUE, text |-> TitleBusy ],
      [ has |-> TRUE, text |-> TitleOnlyMarker ],
      [ has |-> FALSE, text |-> << >> ] }

\* start and end of an event: on the Hong Kong clock, in UTC late in the
\* evening, an all-day event, a text that is no time.
Periods ==
    { << TimeAt(9, 8), TimeAt(10, 8) >>,
      << TimeAt(22, 0), TimeAt(23, 0) >>,
      << NoDateTime, NoDateTime >>,
      << TimeAt(11, 8), BadDateTime >> }

Events ==
    { [ has_summary |-> s.has, summary |-> s.text, start |-> p[1], end |-> p[2] ] :
        s \in Summaries, p \in Periods }

CalendarInit ==
    /\ pc = "calendar"
    /\ now = [ date |-> [ y |-> 2024, m |-> 12, d |-> 31 ], days |-> 0 ]
    /\ CalendarParked
    /\ MergeParked /\ ConvParked /\ PhoneParked /\ SlotParked
    /\ LateParked /\ PairParked

AddEvent ==
    /\ pc = "calendar"
    /\ Len(events) < MaxEvents
    /\ \E event \in Events : events' = Append(events, event)
    /\ UNCHANGED << pc, now, slots, doctor_info, mergeVars, convVars, phoneVars, slotVars,
                    histVars, dialogueVars, lateVars,
                    pairVars >>

ParseDoctorInfo ==
    /\ pc = "calendar"
    /\ \E i \in DOMAIN events :
         doctor_info' = [ called |-> TRUE, summary |-> SummaryOf(events[i]),
                          info |-> parse_doctor_info_from_event(events[i]) ]
    /\ UNCHANGED << pc, now, events, slots, mergeVars, convVars, phoneVars, slotVars,
                    histVars, dialogueVars, lateVars,
                    pairVars >>

ConvertEventsToSlots ==
    /\ pc = "calendar"
    /\ slots' = convert_events_to_slots(events)
    /\ pc' = "converted"
    /\ UNCHANGED << now, events, doctor_info, mergeVars, convVars, phoneVars, slotVars,
                    histVars, dialogueVars, lateVars,
                    pairVars >>

TargetDates ==
    { PyNone,
      PyStr(<< "2", "0", "2", "4", "-", "1", "2", "-", "3", "1" >>),
      PyStr(<< "2", "0", "2", "4", "-", "1", "2", "-", "3" >>),
      PyStr(TextTomorrow),
      PyStr(TextToday) }

TimePreferences == { PyNone, PyStr(TextMorning), PyStr(TextEvening) }

Queried(all_slots) ==
    \E target_date \in TargetDates, time_preference \in TimePreferences :
        slot_query' = [ called |-> TRUE,
                        target_date |-> target_date,
                        time_preference |-> time_preference,
                        all_slots |-> all_slots,
                        result |-> get_available_slots(all_slots, target_date,
                                                       time_preference, now.date) ]

GetAvailableSlots ==
    /\ pc = "calendar"
    /\ Queried(convert_events_to_slots(events))
    /\ pc' = "queried"
    /\ UNCHANGED << now, events, slots, doctor_info, mergeVars, convVars, phoneVars, slotVars,
                    histVars, dialogueVars, args_after, reordered,
                    pairVars >>

CalendarNext == AddEvent \/ ParseDoctorInfo \/ ConvertEventsToSlots \/ GetAvailableSlots

SpecCalendar == CalendarInit /\ [][CalendarNext]_vars

(***************************************************************************)
(* SpecPair: two ConversationManager objects of one process.  objects is   *)
(* the heap: a conversation holds references to its nested PatientInfo and *)
(* PreferredTime records and to its two lists, so that a write through     *)
(* one reference shows through every other reference to the same object.   *)
(* Objects 1 and 2 are the defaults of the fields patient_info and         *)
(* available_time in the class BookingEntities, object 3 is a slot list of *)
(* the caller.  clock counts half seconds; acted is the conversation the   *)
(* last step worked on.  The first conversation is made when the process   *)
(* starts.                                                                 *)
(***************************************************************************)
Pair == { 1, 2 }

MaxClock == 2

MaxPairMessages == 1

MaxObjects == 13

\* An object: its class, its value and who made it.
Obj(kind, v, of) == [ kind |-> kind, v |-> v, of |-> of ]

ClassObjects ==
    << Obj("PatientInfo", PatientInfo, "class"), Obj("PreferredTime", PreferredTime, "class") >>

CallerObjects == << Obj("list", convert_events_to_slots(<< EventWang >>), "caller") >>

NewEntities_SharedDefaults(heap) ==
    [ objects |-> heap,
      entities |-> [ BookingEntities EXCEPT !.patient_info = 1, !.available_time = 2 ] ]

\* BookingEntities(): every instance gets its own copy of the default of a
\* field.  The result is the heap and the new entities, whose nested
\* fields are references.
NewEntities(heap) ==
    [ objects |-> heap \o << Obj(heap[1].kind, heap[1].v, "instance"),
                             Obj(heap[2].kind, heap[2].v, "instance") >>,
      entities |-> [ BookingEntities EXCEPT !.patient_info = Len(heap) + 1,
                                            !.available_time = Len(heap) + 2 ] ]

\* f"conv_{int(datetime.now().timestamp())}"
ConversationId(at) == << "c", "o", "n", "v", "_" >> \o NatToDigits(at \div 2)

\* ConversationManager.__init__; made is what BookingEntities() gave.
Constructed(made, at) ==
    [ objects |-> made.objects \o << Obj("list", << >>, "instance"),
                                     Obj("list", << >>, "instance") >>,
      conversation |->
          [ conversation_id |-> ConversationId(at),
            state |-> GREETING,
            entities |-> made.entities,
            message_history |-> Len(made.objects) + 1,
            available_slots |-> Len(made.objects) + 2,
            selected_slot |-> NoSlot,
            turn_count |-> 0,
            created_at |-> at ] ]

\* The entities of a conversation with the nested records they refer to.
EntitiesOf(heap, c) ==
    [ c.entities EXCEPT !.patient_info = heap[c.entities.patient_info].v,
                        !.available_time = heap[c.entities.available_time].v ]

\* What a conversation holds, every reference followed.
Held(heap, c) ==
    [ entities |-> EntitiesOf(heap, c),
      message_history |-> heap[c.message_history].v,
      turn_count |-> c.turn_count,
      available_slots |-> heap[c.available_slots].v,
      selected_slot |-> c.selected_slot ]

\* The heap after writes through the references of c left its nested
\* records as in e.
Written(heap, c, e) ==
    [ ref \in DOMAIN heap |->
        IF ref = c.entities.available_time THEN [ heap[ref] EXCEPT !.v = e.available_time ]
        ELSE IF ref = c.entities.patient_info THEN [ heap[ref] EXCEPT !.v = e.patient_info ]
        ELSE heap[ref] ]

\* The reference counts: an object that no conversation refers to any more
\* is freed; the class keeps its defaults and the caller its list.
Referred(c) ==
    { c.entities.patient_info, c.entities.available_time, c.message_history,
      c.available_slots }

Collected(heap, held) ==
    [ ref \in DOMAIN heap |->
        IF heap[ref].of = "instance" /\ \A i \in DOMAIN held : ref \notin Referred(held[i])
        THEN Obj("freed", << >>, "instance")
        ELSE heap[ref] ]

PairInit ==
    /\ pc = "pair"
    /\ now = [ date |-> [ y |-> 2024, m |-> 12, d |-> 31 ], days |-> 0 ]
    /\ LET made == Constructed(NewEntities(ClassObjects \o CallerObjects), 0)
       IN  /\ conversations = << made.conversation >>
           /\ objects = made.objects
    /\ clock = 0
    /\ acted = 1
    /\ MergeParked /\ ConvParked /\ PhoneParked /\ SlotParked /\ CalendarParked
    /\ LateParked

\* Time passes, then ConversationManager() runs.
NewConversationManager ==
    /\ pc = "pair"
    /\ Len(conversations) + 1 \in Pair
    /\ \E at \in clock..MaxClock :
         LET made == Constructed(NewEntities(objects), at)
         IN  /\ conversations' = Append(conversations, made.conversation)
             /\ objects' = made.objects
             /\ clock' = at
    /\ acted' = Len(conversations) + 1
    /\ UNCHANGED << pc, now, mergeVars, convVars, phoneVars, slotVars, histVars,
                    dialogueVars, calendarVars, lateVars >>

PairAddMessage ==
    /\ pc = "pair"
    /\ \E i \in DOMAIN conversations :
         LET c == conversations[i]
             r == add_message(objects[c.message_history].v, c.turn_count, "user",
                              << "h", "i" >>, clock)
         IN  /\ Len(objects[c.message_history].v) < MaxPairMessages
             /\ objects' = [ objects EXCEPT ![c.message_history].v = r.message_history ]
             /\ conversations' = [ conversations EXCEPT ![i].turn_count = r.turn_count ]
             /\ acted' = i
    /\ UNCHANGED << pc, now, clock, mergeVars, convVars, phoneVars, slotVars, histVars,
                    dialogueVars, calendarVars, lateVars >>

PairMaps ==
    { << DictItem("patient_info", << KV("name", PyStr(TextWangMing)) >>) >>,
      << DictItem("available_time", << KV("time_slot", PyStr(SlotEvening)) >>) >> }

\* update_entities on conversation i, r being what the loop left: the
\* nested records are written in place.
PairUpdated(i, c, r) ==
    /\ objects' = Written(objects, c, r.entities)
    /\ conversations' =
           [ conversations EXCEPT
               ![i].entities = [ r.entities EXCEPT
                                   !.patient_info = c.entities.patient_info,
                                   !.available_time = c.entities.available_time ] ]
    /\ acted' = i

PairUpdateEntities ==
    /\ pc = "pair"
    /\ \E i \in DOMAIN conversations, m \in PairMaps :
         PairUpdated(i, conversations[i],
                     update_entities(EntitiesOf(objects, conversations[i]), m))
    /\ UNCHANGED << pc, now, clock, mergeVars, convVars, phoneVars, slotVars, histVars,
                    dialogueVars, calendarVars, lateVars >>

\* set_available_slots: self.available_slots is the list the caller gave.
PairSetAvailableSlots ==
    /\ pc = "pair"
    /\ \E i \in DOMAIN conversations :
         LET set == [ conversations EXCEPT ![i].available_slots = Len(ClassObjects) + 1 ]
         IN  /\ conversations' = set
             /\ objects' = Collected(objects, set)
             /\ acted' = i
    /\ UNCHANGED << pc, now, clock, mergeVars, convVars, phoneVars, slotVars,
                    histVars, dialogueVars, calendarVars, lateVars >>

PairSelectSlot ==
    /\ pc = "pair"
    /\ \E i \in DOMAIN conversations :
         /\ objects[conversations[i].available_slots].v # << >>
         /\ conversations' =
                [ conversations EXCEPT
                    ![i].selected_slot = objects[conversations[i].available_slots].v[1] ]
         /\ acted' = i
    /\ UNCHANGED << pc, now, objects, clock, mergeVars, convVars, phoneVars, slotVars,
                    histVars, dialogueVars, calendarVars, lateVars >>

\* conversation.entities = merged_entities in extract_and_merge, r being
\* what merge_entities returned for current, the entities of conversation
\* i: a nested record of merged that is no object of the entities merged
\* was copied from is a new object.
Replaced(held, heap, i, current, r, shared) ==
    LET c == held[i]
        replaced ==
            [ held EXCEPT
                ![i].entities =
                    [ r.merged EXCEPT
                        !.patient_info = IF "patient_info" \in shared
                                         THEN c.entities.patient_info
                                         ELSE Len(heap) + 1,
                        !.available_time = IF "available_time" \in shared
                                           THEN c.entities.available_time
                                           ELSE Len(heap) + 2 ] ]
    IN  [ conversations |-> replaced,
          objects |-> Collected(Written(heap, c, CurrentAfter(current, r))
                                  \o << Obj("PatientInfo", r.merged.patient_info, "instance"),
                                        Obj("PreferredTime", r.merged.available_time,
                                            "instance") >>,
                                replaced) ]

PairReplaced(r) ==
    /\ conversations' = r.conversations
    /\ objects' = r.objects

ReplaceEntities ==
    /\ pc = "pair"
    /\ Len(objects) + 2 <= MaxObjects
    /\ \E i \in DOMAIN conversations, m \in PairMaps :
         /\ PairReplaced(Replaced(conversations, objects, i,
                                   EntitiesOf(objects, conversations[i]),
                                   merge_entities(EntitiesOf(objects, conversations[i]),
                                                  m, now.date),
                                   SharedByCopy(EntitiesOf(objects, conversations[i]))))
         /\ acted' = i
    /\ UNCHANGED << pc, now, clock, mergeVars, convVars, phoneVars, slotVars, histVars,
                    dialogueVars, calendarVars, lateVars >>

PairNext ==
    \/ NewConversationManager
    \/ PairAddMessage
    \/ PairUpdateEntities
    \/ PairSetAvailableSlots
    \/ PairSelectSlot
    \/ ReplaceEntities

SpecPair == PairInit /\ [][PairNext]_vars

(***************************************************************************)
(* Properties of merge_entities, under SpecMerge.                          *)
(***************************************************************************)
Merged == pc # "start" /\ ~first.raised

ErrorsOf(result, field) ==
    { i \in DOMAIN result.all_errors : result.all_errors[i][1] = field }

\* C1 as stated: merging the same field map into the entities a merge
\* returned gives equal entities again and no error the first merge did not
\* report.
C1_MergeTwiceSame ==
    pc = "merged_again" =>
        /\ ~second.raised
        /\ second.merged = first.merged
        /\ Range(second.all_errors) \subseteq Range(first.all_errors)

\* C1: merging the same field map into the entities a merge returned, on the
\* same calendar date, gives equal entities again and no error the first
\* merge did not report.
C1_MergeTwiceSameOnSameDay ==
    (pc = "merged_again" /\ second.at = first.at) =>
        /\ ~second.raised
        /\ second.merged = first.merged
        /\ Range(second.all_errors) \subseteq Range(first.all_errors)

C1_Witness ==
    /\ pc = "merged_again"
    /\ second.at = first.at
    /\ first.merged # current_entities
    /\ first.all_errors # << >>
    /\ second.merged = first.merged

\* C3: a recognized key, or a sub-field of patient_info or available_time,
\* whose incoming value is falsy keeps the value it had before the merge.
C3_EmptyNeverOverwrites ==
    Merged =>
        \A i \in DOMAIN new_entities :
            LET item == new_entities[i]
            IN  /\ (item.k \in DOMAIN BookingEntities /\ ~Truthy(item.v))
                      => first.merged[item.k] = current_entities[item.k]
                /\ (item.k \in { "patient_info", "available_time" } /\ item.v.t = "dict")
                      => \A j \in DOMAIN item.d :
                            (item.d[j].k \in DOMAIN BookingEntities[item.k] /\ ~Truthy(item.d[j].v))
                               => first.merged[item.k][item.d[j].k]
                                     = current_entities[item.k][item.d[j].k]

C3_Witness ==
    /\ Merged
    /\ \E i \in DOMAIN new_entities :
          /\ new_entities[i].k = "available_time"
          /\ \E j \in DOMAIN new_entities[i].d :
                /\ new_entities[i].d[j].k = "time_slot"
                /\ new_entities[i].d[j].v = PyStr(<< >>)
          /\ current_entities.available_time.time_slot = PyStr(SlotEvening)
          /\ first.merged.available_time.time_slot = PyStr(SlotEvening)
          /\ first.merged.available_time.date # current_entities.available_time.date

\* Whether the validators accept the sub-field on its own.
SubFieldAccepted(key, value, today) ==
    CASE key = "name"      -> Truthy(value) /\ NameCheck(value).valid
      [] key = "age"       -> /\ ~PyToInt(value).raised
                              /\ ~PyToInt(value).error
                              /\ validate_age_range(PyToInt(value).n).ok
      [] key = "gender"    -> Truthy(value) /\ ~validate_gender(value).raised /\ validate_gender(value).ok
      [] key = "date"      -> /\ value.t = "str"
                              /\ Truthy(normalize_date_expression(value.s, today))
      [] key = "time_slot" -> value.t = "str" /\ Truthy(value)
      [] OTHER             -> FALSE

\* What the merge writes for a sub-field the validators accept.
SubFieldNormalized(key, value, today) ==
    CASE key = "gender"    -> PyStr(validate_gender(value).result)
      [] key = "date"      -> normalize_date_expression(value.s, today)
      [] key = "time_slot" -> IF Truthy(normalize_time_slot(value.s))
                              THEN normalize_time_slot(value.s) ELSE value
      [] OTHER             -> value

\* The composite validator's verdict on the dict at a composite key.
CompositeVerdict(item, today) ==
    IF item.k = "patient_info" THEN validate_patient_info(item.d)
    ELSE validate_preferred_time(item.d, today)

\* C4: when a sub-field of patient_info or available_time is rejected, the
\* sibling sub-fields that pass validation are still written.
C4_SiblingsStillWritten ==
    Merged =>
        \A i \in DOMAIN new_entities :
            LET item == new_entities[i]
            IN  ( /\ item.k \in { "patient_info", "available_time" }
                  /\ item.v.t = "dict"
                  /\ ~CompositeVerdict(item, now.date).ok )
                   => \A j \in DOMAIN item.d :
                         ( /\ Truthy(item.d[j].v)
                           /\ SubFieldAccepted(item.d[j].k, item.d[j].v, now.date) )
                            => first.merged[item.k][item.d[j].k]
                                  = SubFieldNormalized(item.d[j].k, item.d[j].v, now.date)

\* C5: a scalar key with a non-empty value is stored as the validator
\* normalizes it, or, when rejected, keeps its prior value and adds exactly
\* one error carrying the field's name; every key of the map is treated so.
C5_ScalarKeys ==
    Merged =>
        \A i \in DOMAIN new_entities :
            LET item == new_entities[i]
                r    == CASE item.k = "booking_type" ->
                                 validate_appointment_type(item.v, get_clinic_appointment_types)
                          [] item.k = "phone_number" -> validate_phone_number(PyToStr(item.v))
                          [] item.k = "policy_number" -> validate_policy_number(PyToStr(item.v))
            IN  (item.k \in ScalarFields /\ Truthy(item.v)) =>
                    IF r.ok
                    THEN /\ first.merged[item.k] = PyStr(r.result)
                         /\ ErrorsOf(first, item.k \o ": ") = {}
                    ELSE /\ first.merged[item.k] = current_entities[item.k]
                         /\ Cardinality(ErrorsOf(first, item.k \o ": ")) = 1

C5_Witness ==
    /\ Merged
    /\ Len(new_entities) = 2
    /\ new_entities[1] = Item("phone_number", PyStr(TextPhoneBad))
    /\ new_entities[2] = Item("policy_number", PyStr(TextPolicy))
    /\ current_entities = StoredFull
    /\ first.merged.phone_number = PyStr(TextPhonePlain)
    /\ first.merged.policy_number = PyStr(upper(TextPolicy))
    /\ Len(first.all_errors) = 1

\* C6: merge_entities returns a pair for every field map the extraction
\* service can deliver, and keys it does not recognize change nothing.
C6_MergeNeverRaises ==
    pc # "start" =>
        /\ ~first.raised
        /\ \A key \in DOMAIN BookingEntities :
              (\A i \in DOMAIN new_entities : new_entities[i].k # key)
                 => first.merged[key] = current_entities[key]

(***************************************************************************)
(* Properties of a conversation, under Spec.                               *)
(***************************************************************************)
PhoneFormat(v) ==
    /\ v.t = "str"
    /\ Len(v.s) = 8
    /\ v.s[1] \in { "2", "3", "4", "5", "6", "7", "8", "9" }
    /\ \A i \in 2..8 : IsDigit(v.s[i])

PolicyFormat(v) ==
    /\ v.t = "str"
    /\ Len(v.s) \in 6..20
    /\ \A i \in DOMAIN v.s : v.s[i] \in Range(AsciiUpper) \cup Range(AsciiDigits)

NameFormat(v) == v.t = "str" /\ is_valid_chinese_name(v.s)

AgeFormat(v) == ~PyToInt(v).raised /\ PyToInt(v).n \in 0..150

ScalarsValid(e) ==
    /\ e.phone_number # PyNone => PhoneFormat(e.phone_number)
    /\ e.policy_number # PyNone => PolicyFormat(e.policy_number)
    /\ ~e.patient_info.none /\ e.patient_info.name # PyNone => NameFormat(e.patient_info.name)
    /\ ~e.patient_info.none /\ e.patient_info.age # PyNone => AgeFormat(e.patient_info.age)

\* C2: after any sequence of merge_entities, extract_and_merge and
\* update_entities calls on a conversation that starts with empty entities,
\* every stored scalar that is not None is a value its validator accepts: the
\* phone number is 8 digits starting with 2 to 9, the policy number 6 to 20
\* uppercase alphanumerics, the name passes the name validator and the age
\* lies in 0..150.
C2_StoredScalarsValid == pc = "conversation" => ScalarsValid(entities)

Failed == pc = "conversation" /\ last.op = "extract_and_merge" /\ last.cause # "none"

\* C7: when the extraction service returns an empty or unparseable result,
\* or when extraction or merging raises, extract_and_merge reports failure,
\* applies no part of a merge and leaves conversation.entities equal to its
\* value before the call.
C7_FailureLeavesEntities ==
    Failed => ~last.success /\ ~last.recorded /\ entities = last.before

\* A merge that raised after it had written a field of its copy, and a
\* conversation that still holds what it held before the call.
C7_Witness ==
    /\ Failed
    /\ last.cause = "merge raised"
    /\ last.partial # last.before
    /\ last.before # BookingEntities
    /\ entities = last.before

(***************************************************************************)
(* Properties of validate_phone_number, under SpecPhone.                   *)
(***************************************************************************)
\* An 8-digit string matching [2-9][0-9]{7}
ValidNumber(d) ==
    /\ Len(d) = 8
    /\ d[1] \in { "2", "3", "4", "5", "6", "7", "8", "9" }
    /\ \A i \in 2..8 : IsAsciiDigit(d[i])

CleanedRemainder(text) ==
    StripCountryCode(SelectSeq(text, LAMBDA c : ~(IsSpace(c) \/ c = "-")))

\* C10: every 8-digit string d matching [2-9][0-9]{7}, written with no
\* prefix, with 852 or with +852 and with any spaces or dashes inserted, is
\* accepted and the bare digits d are returned; every input whose cleaned
\* remainder is not such a string is rejected.
C10_PhoneAcceptedIffValid ==
    pc = "validated" =>
        /\ ValidNumber(phone.number)
             /\ phone.prefix \in { << >>, << "8", "5", "2" >>, << "+", "8", "5", "2" >> }
             => phone_result.ok /\ phone_result.result = phone.number
        /\ ~ValidNumber(CleanedRemainder(phone.text)) => ~phone_result.ok

(***************************************************************************)
(* Properties of suggest_meeting_times, under SpecSlots.                   *)
(***************************************************************************)
\* The candidate slots of the window: an hour apart from the rounded start,
\* each ending inside the window.
Candidates ==
    { c \in { RoundToHour(time_min) + Hours(k) : k \in 0..24 } : c + Hours(1) <= time_max }

Suggested(c) == \E i \in DOMAIN suggestions : suggestions[i] = c

\* C8: a candidate slot [s, s+d) whose start hour is within business hours
\* is excluded iff some busy interval [bs, be) has bs < s+d and s < be; a
\* busy interval that ends exactly at s, or starts exactly at s+d, does not
\* exclude the slot.
C8_ExcludedIffOverlap ==
    pc = "suggested" =>
        \A c \in Candidates :
            HourOf(c) \in 9..17 =>
                ( ~Suggested(c) <=>
                    \E i \in DOMAIN busy_periods :
                        busy_periods[i][1] < c + Minutes(60) /\ c < busy_periods[i][2] )

\* A slot that is suggested although one busy period ends at its start and
\* another starts at its end, next to a slot that a busy period excludes.
C8_Witness ==
    /\ pc = "suggested"
    /\ \E c \in Candidates :
         /\ Suggested(c)
         /\ \E i \in DOMAIN busy_periods : busy_periods[i][2] = c
         /\ \E i \in DOMAIN busy_periods : busy_periods[i][1] = c + Minutes(60)
    /\ \E c \in Candidates : HourOf(c) \in 9..17 /\ ~Suggested(c)

NoBusyAt(c) ==
    \A i \in DOMAIN busy_periods :
        ~(busy_periods[i][1] < c + Minutes(60) /\ c < busy_periods[i][2])

\* C9: with business hours 9 to 18 and 60-minute slots, the window
\* 09:00-18:00 of one day with no busy intervals gives exactly the nine
\* starts 09:00, 10:00, ..., 17:00, none at 08:00 or 18:00; in general a
\* slot that no busy interval excludes is suggested iff its start hour h
\* satisfies 9 <= h < 18.
C9_BusinessHours ==
    pc = "suggested" =>
        /\ busy_periods = << >> /\ time_min = Hours(9) /\ time_max = Hours(18)
             => suggestions = << Hours(9), Hours(10), Hours(11), Hours(12), Hours(13),
                                 Hours(14), Hours(15), Hours(16), Hours(17) >>
        /\ \A c \in Candidates :
             NoBusyAt(c) => ( Suggested(c) <=> 9 <= HourOf(c) /\ HourOf(c) < 18 )
        /\ \A i \in DOMAIN suggestions : suggestions[i] \in Candidates

\* The nine slots of the window 09:00-18:00 without busy periods.
C9_Witness ==
    /\ pc = "suggested"
    /\ busy_periods = << >>
    /\ time_min = Hours(9)
    /\ time_max = Hours(18)
    /\ Len(suggestions) = 9

(***************************************************************************)
(* Properties of what a conversation reports, under Spec.                  *)
(***************************************************************************)
Absent(v) == v.t = "none" \/ (v.t = "str" /\ v.s = << >>)

\* The mandatory fields of the entities that are absent or empty, by label.
AbsentLabels ==
    { l \in { LabelBookingType, LabelPatientInfo, LabelPolicyNumber,
              LabelAvailableTime, LabelPhoneNumber } :
        \/ l = LabelBookingType /\ Absent(entities.booking_type)
        \/ l = LabelPatientInfo
             /\ (entities.patient_info.none \/ Absent(entities.patient_info.name))
        \/ l = LabelPolicyNumber /\ Absent(entities.policy_number)
        \/ l = LabelAvailableTime
             /\ (entities.available_time.none \/ Absent(entities.available_time.date))
        \/ l = LabelPhoneNumber /\ Absent(entities.phone_number) }

\* C11: a summary reports is_complete exactly when its missing_fields is
\* empty, and missing_fields holds, once each, the labels of exactly those
\* of the five mandatory fields that are absent or empty in the entities;
\* age, gender and time slot play no part.
C11_MissingFieldsExact ==
    view.op = "get_summary" =>
        /\ view.result.is_complete <=> (view.result.missing_fields = << >>)
        /\ Range(view.result.missing_fields) = AbsentLabels
        /\ Len(view.result.missing_fields) = Cardinality(AbsentLabels)

\* A summary of entities that have a time slot and no date, and one of
\* complete entities.
C11_Witness ==
    /\ view.op = "get_summary"
    /\ ~entities.available_time.none
    /\ Truthy(entities.available_time.time_slot)
    /\ LabelAvailableTime \in Range(view.result.missing_fields)

C11_WitnessComplete == view.op = "get_summary" /\ view.result.is_complete

\* The labels in the priority order of the follow-up question.
PriorityOrder ==
    << LabelBookingType, LabelPatientInfo, LabelAvailableTime, LabelPolicyNumber,
       LabelPhoneNumber >>

InPriorityOrder(fields) ==
    \A i, j \in DOMAIN fields :
        i < j => \E a, b \in DOMAIN PriorityOrder :
                    a < b /\ PriorityOrder[a] = fields[i] /\ PriorityOrder[b] = fields[j]

\* C17: the list of missing fields handed to the question generator is in
\* the priority order appointment type, patient name, appointment date,
\* policy number, phone number.
C17_PriorityOrder ==
    (view.op = "get_missing_fields_question" /\ view.result.asked) =>
        InPriorityOrder(view.result.missing_fields)

\* What somebody counting the calls would compute: successes over calls.
Succeeded == Cardinality({ i \in DOMAIN attempts : attempts[i] })

\* C18: the quality score is the number of calls of extract_and_merge that
\* succeeded over the number of calls made, and 0 when none was made.
C18_ScoreCountsEveryCall ==
    view.op = "get_extraction_quality_score" =>
        IF Len(attempts) = 0 THEN view.result.num = 0
        ELSE view.result.num * Len(attempts) = Succeeded * view.result.den

(***************************************************************************)
(* Properties of the dialogue, under SpecDialogue and SpecSelection.        *)
(***************************************************************************)
UserMessages == { i \in DOMAIN message_history : message_history[i].role = "user" }

KeepsHistory ==
    /\ Len(message_history') >= Len(message_history)
    /\ SubSeq(message_history', 1, Len(message_history)) = message_history

\* C12: every step leaves the entries message_history had where they were
\* and as they were, adding entries at the end only, and turn_count is
\* always the number of entries whose role is 'user'.
C12_AppendOnlyAndUserTurns ==
    /\ [][KeepsHistory]_vars
    /\ [](turn_count = Cardinality(UserMessages))

\* A history with a message of another role behind a user message.
C12_Witness ==
    /\ Len(message_history) = 2
    /\ message_history[1].role = "user"
    /\ message_history[2].role = "assistant"
    /\ turn_count = 1

\* The response is the text of the integer k.
Denotes(response, k) ==
    /\ response.t = "str"
    /\ ~PyToInt(response).error
    /\ PyToInt(response).n = k

\* C13: parse_slot_selection returns a number in 0..N, N the number of the
\* candidate slots; a number k in 1..N only for a response that is the
\* integer k, and 0 for an empty list, for no response and for a response
\* that is no integer in 1..N.
C13_SelectionInRange ==
    selection.called =>
        /\ selection.result \in 0..selection.count
        /\ selection.result # 0 => Denotes(selection.response, selection.result)
        /\ (\/ selection.count = 0
            \/ selection.response.t = "none"
            \/ \A k \in 1..selection.count : ~Denotes(selection.response, k))
               => selection.result = 0
        /\ \A k \in 1..selection.count :
               Denotes(selection.response, k) => selection.result = k

\* An answer that is an integer beyond the list, resolved to 0.
C13_Witness ==
    /\ selection.called
    /\ selection.count = 2
    /\ Denotes(selection.response, 3)
    /\ selection.result = 0

C13_WitnessResolved == selection.called /\ selection.count = 2 /\ selection.result = 2

\* C16 as stated: when the first user turn of a new conversation has given
\* complete, valid information and there is a candidate slot, the
\* conversation is in SHOWING_AVAILABILITY.
C16_CompleteTurnShowsAvailability ==
    (/\ Len(message_history) = 1
     /\ turn_count = 1
     /\ calls = 1
     /\ last.success
     /\ last.before = BookingEntities
     /\ is_complete(entities)
     /\ available_slots # << >>)
        => state = SHOWING_AVAILABILITY

(***************************************************************************)
(* Properties of the calendar service, under SpecCalendar.                 *)
(***************************************************************************)
\* The names and specialties of the titles, and the id the claim gives to
\* each name.
ExpectedDoctors ==
    { [ name |-> NameWang, id |-> << "d", "r", "_", "w", "a", "n", "g" >> ],
      [ name |-> NameLee, id |-> << "d", "r", "_", "l", "e", "e" >> ],
      [ name |-> NameLi, id |-> << "d", "r", "_", "l", "i" >> ] }

ExpectedSpecialties == { SpecialtyInternal, SpecialtyObGyn, SpecialtySurgery }

\* C19 as stated: a title '<Name> Available - <Specialty>' parses to
\* doctor_name <Name>, specialty <Specialty> and doctor_id <Name> in lower
\* case with '_' for a space and without periods.
C19_TitleParsed ==
    doctor_info.called =>
        \A doctor \in ExpectedDoctors, specialty \in ExpectedSpecialties :
            doctor_info.summary = AvailabilityTitle(doctor.name, specialty)
                => /\ ~doctor_info.info.none
                   /\ doctor_info.info.doctor_name = doctor.name
                   /\ doctor_info.info.specialty = specialty
                   /\ doctor_info.info.doctor_id = doctor.id

HasMarker(event) == event.has_summary /\ Contains(lower(event.summary), Marker)

\* The slot is the one of the event: the doctor of its title, its start on
\* the Hong Kong clock.
SlotFrom(event, slot) ==
    /\ Contains(event.summary, slot.doctor_name)
    /\ event.start.t = "iso" /\ event.end.t = "iso"
    /\ slot.date = FormatDate(ToLocal(event.start).date)
    /\ slot.start_time = FormatTime(ToLocal(event.start))
    /\ slot.end_time = FormatTime(ToLocal(event.end))

\* C20: the slots of a conversion are the slots of events whose titles
\* have the availability marker, one event for each slot, in the order of
\* the events; an event without the marker gives no slot.
C20_SlotsOnlyFromMarked ==
    pc = "converted" =>
        \E f \in [ DOMAIN slots -> DOMAIN events ] :
            /\ \A i, j \in DOMAIN slots : i < j => f[i] < f[j]
            /\ \A i \in DOMAIN slots : HasMarker(events[f[i]]) /\ SlotFrom(events[f[i]], slots[i])

\* A busy event in front of an availability event: one slot, of the second.
C20_Witness ==
    /\ pc = "converted"
    /\ Len(events) = 2
    /\ events[1].summary = TitleBusy /\ events[1].start.t = "iso" /\ events[1].end.t = "iso"
    /\ HasMarker(events[2])
    /\ Len(slots) = 1

(***************************************************************************)
(* More properties of suggest_meeting_times, under SpecSlots.              *)
(***************************************************************************)
SuggestionsMade == pc \in { "suggested", "suggested_again" }

\* C24: the suggested starts are strictly increasing, so none comes twice,
\* and a second call for the same window with the same busy periods in any
\* order returns the same sequence.
C24_OrderedAndOrderIndependent ==
    SuggestionsMade =>
        /\ \A i, j \in DOMAIN suggestions : i < j => suggestions[i] < suggestions[j]
        /\ reordered.called => reordered.suggestions = suggestions

\* Two busy periods listed the other way round, one of them excluding a
\* slot, and at least two slots suggested.
C24_Witness ==
    /\ reordered.called
    /\ reordered.busy_periods # busy_periods
    /\ Len(suggestions) >= 2
    /\ \E c \in Candidates : HourOf(c) \in 9..17 /\ ~Suggested(c)

\* The hour time_min is rounded to: itself when it is on the hour, the next
\* full hour when it is not.
ExpectedCursor ==
    IF time_min % Hours(1) = 0 THEN time_min
    ELSE (time_min \div Hours(1) + 1) * Hours(1)

\* C25: every suggested start is the rounded time_min plus a whole number
\* of slot durations, and the rounded time_min itself is suggested when it
\* is a free slot of the business hours that fits the window.
C25_CursorStartsAtNextHour ==
    SuggestionsMade =>
        /\ \A i \in DOMAIN suggestions :
               /\ suggestions[i] >= ExpectedCursor
               /\ (suggestions[i] - ExpectedCursor) % Minutes(60) = 0
        /\ (/\ ExpectedCursor + Minutes(60) <= time_max
            /\ HourOf(ExpectedCursor) \in 9..17
            /\ NoBusyAt(ExpectedCursor))
               => suggestions # << >> /\ suggestions[1] = ExpectedCursor

\* A window that starts half a second after 08:00: the first slot is 09:00.
C25_Witness ==
    /\ SuggestionsMade
    /\ time_min = Hours(8) + 1
    /\ suggestions # << >>
    /\ suggestions[1] = Hours(9)

\* C29: every suggested slot lies in the window, time_min <= s and
\* s + 60 minutes <= time_max, and a window that is shorter than one slot
\* after the rounding gives none.
C29_SlotsInsideWindow ==
    SuggestionsMade =>
        /\ \A i \in DOMAIN suggestions :
               time_min <= suggestions[i] /\ suggestions[i] + Minutes(60) <= time_max
        /\ time_max - ExpectedCursor < Minutes(60) => suggestions = << >>

\* A window of one hour from half a second after 08:00: 09:00 is in the
\* business hours but its slot would end after the window.
C29_Witness ==
    /\ SuggestionsMade
    /\ time_min = Hours(8) + 1
    /\ time_max = Hours(9) + 1
    /\ suggestions = << >>

C29_WitnessLastSlot ==
    /\ SuggestionsMade
    /\ suggestions # << >>
    /\ suggestions[Len(suggestions)] + Minutes(60) = time_max

(***************************************************************************)
(* Properties of the stored entities, under Spec and SpecMerge.            *)
(***************************************************************************)
CanonicalGender(v) ==
    v.t = "none" \/ (v.t = "str" /\ v.s \in { GenderMale, GenderFemale, GenderOther })

\* C22: the gender a conversation stores is absent or one of the three
\* canonical values.
C22_StoredGenderCanonical ==
    entities.patient_info.none \/ CanonicalGender(entities.patient_info.gender)

\* The same for what merge_entities returns.
C22_MergedGenderCanonical ==
    (pc # "start" /\ ~first.raised) =>
        first.merged.patient_info.none \/ CanonicalGender(first.merged.patient_info.gender)

Missing(e) == Range(get_missing_fields(e))

C28_MissingNeverGrows == [][Missing(entities') \subseteq Missing(entities)]_vars

\* The same for one call of merge_entities.
C28_MergeKeepsPresent ==
    (pc # "start" /\ ~first.raised) => Missing(first.merged) \subseteq Missing(current_entities)

AgeOnly(a) == DictItem("patient_info", << KV("age", PyInt(a)) >>)

PriorAge ==
    IF current_entities.patient_info.none THEN PyNone ELSE current_entities.patient_info.age

\* C27 as stated: a field map whose patient_info is {age: a} gives merged
\* entities with age a when 0 <= a <= 150, and keeps the prior age and
\* reports an error when a is outside.
C27_AgeInRangeStored ==
    Merged =>
        \A a \in -1..151 :
            AgeOnly(a) \in Range(new_entities) =>
                IF 0 <= a /\ a <= 150
                THEN first.merged.patient_info.age = PyInt(a)
                ELSE /\ first.merged.patient_info.age = PriorAge
                     /\ ErrorsOf(first, "patient_info: ") # {}

\* What merge_entities does with {age: a}: as C27 states for every a but 0;
\* age 0 passes validate_age_range and is then skipped by the truthiness
\* test of the write loop, so the prior age stays and no error is reported.
C27_AgeZeroSkipped ==
    Merged =>
        \A a \in -1..151 :
            AgeOnly(a) \in Range(new_entities) =>
                IF 1 <= a /\ a <= 150
                THEN first.merged.patient_info.age = PyInt(a)
                ELSE /\ first.merged.patient_info.age = PriorAge
                     /\ (ErrorsOf(first, "patient_info: ") # {}) = (a # 0)

C26_WitnessRaised == args_after.called /\ first.raised

\* The date a target date names: the next day for tomorrow, the current date
\* for today, the target itself otherwise.
WantedDate(target_date, today) ==
    IF target_date.s = TextTomorrow THEN FormatDate(NextDay(today))
    ELSE IF target_date.s = TextToday THEN FormatDate(today)
    ELSE target_date.s

HourOfSlot(slot) == DigitsToInt(SubSeq(slot.start_time, 1, 2))

MeetsPreference(slot, time_preference) ==
    \/ time_preference = PyNone
    \/ time_preference.s = TextMorning /\ HourOfSlot(slot) \in 9..11
    \/ time_preference.s = TextAfternoon /\ HourOfSlot(slot) \in 12..17
    \/ time_preference.s = TextEvening /\ HourOfSlot(slot) \in 18..20

\* C21 as stated: with a target date, get_available_slots returns only slots
\* whose date equals the target date (for today / tomorrow, the current date
\* / the next day), and returns every converted slot of that date that meets
\* the time-of-day preference.
C21_ExactTargetDate ==
    (slot_query.called /\ slot_query.target_date # PyNone) =>
        LET wanted == WantedDate(slot_query.target_date, now.date)
        IN  /\ \A i \in DOMAIN slot_query.result : slot_query.result[i].date = wanted
            /\ \A i \in DOMAIN slot_query.all_slots :
                  ( /\ slot_query.all_slots[i].date = wanted
                    /\ MeetsPreference(slot_query.all_slots[i], slot_query.time_preference) )
                   => slot_query.all_slots[i] \in Range(slot_query.result)

\* What the filter does: a target date that is not a relative term selects
\* the slots whose date contains it.
C21_DateContainsTarget ==
    (slot_query.called /\ slot_query.target_date # PyNone) =>
        LET target == slot_query.target_date.s
            wanted == WantedDate(slot_query.target_date, now.date)
            Dated(slot) == IF target \in { TextTomorrow, TextToday } THEN slot.date = wanted
                           ELSE Contains(slot.date, target)
        IN  /\ \A i \in DOMAIN slot_query.result : Dated(slot_query.result[i])
            /\ \A i \in DOMAIN slot_query.all_slots :
                  ( /\ Dated(slot_query.all_slots[i])
                    /\ MeetsPreference(slot_query.all_slots[i], slot_query.time_preference) )
                   => slot_query.all_slots[i] \in Range(slot_query.result)

(***************************************************************************)
(* Properties of two conversations, under SpecPair.                        *)
(***************************************************************************)
\* C23: a step on one conversation leaves what every other conversation
\* holds as it was: its entities with the nested patient_info and
\* available_time, its message history, turn count, slot list and selected
\* slot.
C23_OthersUnchanged ==
    [][ \A j \in DOMAIN conversations :
          j # acted' => Held(objects', conversations'[j]) = Held(objects, conversations[j]) ]_vars

\* Both conversations were written to, in their nested records and lists,
\* and hold different things.
C23_Witness ==
    /\ Len(conversations) = 2
    /\ \A i \in Pair : /\ Held(objects, conversations[i]).entities # BookingEntities
                         /\ Held(objects, conversations[i]).message_history # << >>
    /\ EntitiesOf(objects, conversations[1]).patient_info
          # EntitiesOf(objects, conversations[2]).patient_info
    /\ conversations[1].selected_slot # conversations[2].selected_slot

\* The entities of one conversation were replaced by merged ones, the
\* objects they referred to before are gone, and the two conversations hold
\* different entities.
C23_WitnessReplaced ==
    /\ Len(conversations) = 2
    /\ \E ref \in DOMAIN objects : objects[ref].kind = "freed"
    /\ EntitiesOf(objects, conversations[1]) # EntitiesOf(objects, conversations[2])
    /\ \A i \in Pair : EntitiesOf(objects, conversations[i]) # BookingEntities

\* C30 as stated: two ConversationManager objects of one process have
\* distinct conversation_id values.
C30_DistinctIds ==
    \A i, j \in DOMAIN conversations :
        i # j => conversations[i].conversation_id # conversations[j].conversation_id

\* What the constructor gives: the ids differ exactly when the two objects
\* were made in different whole seconds.
C30_DistinctIffDifferentSecond ==
    \A i, j \in DOMAIN conversations :
        (conversations[i].conversation_id # conversations[j].conversation_id)
            = (conversations[i].created_at \div 2 # conversations[j].created_at \div 2)

====
